---- MODULE Spec2Model ----
(***************************************************************************)
(* Provider runtime of llm_crosscheck: BaseLLM (llms/base.py).             *)
(*                                                                         *)
(* One runtime instance is shared by several asyncio callers.  Every       *)
(* action is one stretch of code between two suspension points (await of   *)
(* _initialise_client, asyncio.sleep, await of _make_request, a yield of   *)
(* the streaming generator); the event loop runs such a stretch without    *)
(* interleaving.  Time is counted in whole seconds and kept as differences:  *)
(* the age of the rate-limit timestamp and the time each sleeper still has *)
(* to sleep.  An Optional value is a set with at most one element: {} is   *)
(* None.                                                                   *)
(*                                                                         *)
(* Spec is the runtime.  FactorySpec is LLMFactory (llms/factory.py), the  *)
(* constructors of the adapters and the provider table of LLMManager       *)
(* (services/llm_manager.py).  AdapterSpec applies the functions of the    *)
(* adapters (llms/openai_llm.py, llms/anthropic_llm.py), ManagerSpec the   *)
(* generating operations of LLMManager and AnalysisSpec the extractions of *)
(* CrossCheckService (services/crosscheck_service.py), each to inputs      *)
(* drawn by its initial state.  EngineSpec is the template cache of        *)
(* PromptEngine (core/prompt_engine.py).  LiveSpec is the runtime under    *)
(* the fairness of the event loop.  Each specification moves its own       *)
(* variables and leaves those of the others at rest.                       *)
(***************************************************************************)
EXTENDS Integers, Sequences, FiniteSets, TLC

\* ---------------------------------------------------------------- bounds
MaxCalls == 3
MaxRetry == 2
MaxUsage == 1
MaxChunks == 1
MaxMessages == 3
MaxEvents == 2
MaxChoices == 2
MaxWords == 3
MaxCacheSize == 2

Callers == {"a", "b"}

\* ------------------------------------------------------ program constants
SecondsPerMinute == 60
MaxTokensLimit == 32000
DefaultMaxTokens == 1000
\* LLMRequest.temperature in tenths: le=2.0, default=0.7
MaxTemperature == 20
DefaultTemperature == 7

\* ------------------------------------------------------------ error kinds
\* class LLMError(Exception) and its four subclasses; "Exception" stands for
\* any exception type outside the hierarchy.
LLMErrorKinds ==
  {"LLMError", "LLMConnectionError", "LLMRateLimitError",
   "LLMValidationError", "LLMAuthenticationError"}

AllKinds == LLMErrorKinds \cup {"Exception"}

\* isinstance(e, LLMError)
IsLLMError(e) == e.kind \in LLMErrorKinds

\* isinstance(e, LLMRateLimitError)
IsRateLimit(e) == e.kind = "LLMRateLimitError"

\* An exception object.  origin is the adapter attempt that raised it (-1 when
\* the runtime itself raised it), tagged says that provider and model are set.
Err(kind, retry_after, origin, tagged) ==
  [kind |-> kind, retry_after |-> retry_after, origin |-> origin,
   tagged |-> tagged]

NoError == Err("none", {}, -1, FALSE)

\* The retry_after values a vendor may attach to a rate-limit error.
RetryAfterValues == {{}, {0}, {3}}

\* What _make_request may raise at attempt n: adapters tag their errors.
AdapterErrors(n) ==
  {Err(k, {}, n, TRUE) : k \in AllKinds \ {"LLMRateLimitError"}}
    \cup {Err("LLMRateLimitError", ra, n, TRUE) : ra \in RetryAfterValues}

\* What _initialise_client or _stream_request may raise.
PlainErrors == {Err(k, {}, -1, TRUE) : k \in AllKinds}

\* usage of a response: None, or a usage record with this total_tokens.
Usages == {{}} \cup {{n} : n \in 0..MaxUsage}

\* ---------------------------------------------------------------- inputs
Ops == {"generate", "stream_generate", "health_check"}

\* messages is the length of the message list; max_tokens is None, the limit
\* of _validate_request or one more (the schema's default with no message);
\* model tells whether request.model is in self.supported_models.
Requests ==
  {[messages |-> 0, max_tokens |-> {DefaultMaxTokens}, model |-> "supported"]}
    \cup {[messages |-> 1, max_tokens |-> t, model |-> "supported"] :
            t \in {{}, {MaxTokensLimit}, {MaxTokensLimit + 1}}}
    \cup {[messages |-> 1, max_tokens |-> {MaxTokensLimit},
           model |-> "unsupported"]}

\* LLMProviderConfig: max_retries in [0, 10], retry_delay_seconds in [0.1, 60],
\* max_requests_per_minute >= 1.
Configs ==
  [max_retries : 0..MaxRetry,
   retry_delay_seconds : {1, 2},
   max_requests_per_minute : {30, 60}]

\* The configurations tried with callers running concurrently.
ConcurrentConfigs ==
  {c \in Configs : c.max_retries = 1 /\ c.retry_delay_seconds = 1
                   /\ c.max_requests_per_minute = 60}

\* ----------------------------------------------------------------- state
VARIABLES
  config,             \* self.config
  max_in_flight,      \* how many calls the application keeps in flight
  client,             \* self._client: {} is None
  request_count,      \* self._request_count
  token_count,        \* self._token_count
  last_request_age,   \* time.time() - self._last_request_time; {} while
                      \* self._last_request_time is still 0.0
  call,               \* per caller: the call it is in
  completed,          \* the call that ended in the latest step, if one did
  started,            \* calls started so far
  initialisations,    \* invocations of _initialise_client that did not
                      \* raise: pending ones and those that returned
  last_pass,          \* line 383 as executed in the latest step, if it was:
                      \* the time since its execution before, how long
                      \* the gate made the caller sleep, and the call's
                      \* operation and request
  responses,          \* responses generate returned: count and token sum
  streams_done,       \* streams consumed to their end
  providers,          \* LLMFactory._providers: provider identifier -> class
  llm_providers,      \* LLMManager._llm_providers: its keys in insertion
                      \* order
  created,            \* the factory or manager call of the latest step and
                      \* its outcome
  health,             \* LLMManager.health_check: the call in progress or
                      \* its outcome
  adapter_in,         \* the function of an adapter that is applied and its
                      \* arguments
  adapter_out,        \* what it returned or raised
  default_provider,   \* LLMManager.default_provider
  generated,          \* the call of generate_from_template,
                      \* cross_check_response or code_review that is made:
                      \* its arguments, what it did and its outcome
  analysis,           \* CrossCheckService: the extraction that is applied, its
                      \* text and its result
  prompt_engine,      \* PromptEngine: self.cache_size and self.auto_reload
  template_cache,     \* self._template_cache: its keys in insertion order
  jinja_cache,        \* self._jinja_cache: its keys
  engine_call         \* the call of the engine made in the latest step and
                      \* its outcome

runtime_vars ==
  <<config, max_in_flight, client, request_count, token_count,
    last_request_age, call, completed, started, initialisations, last_pass,
    responses, streams_done>>

factory_vars == <<providers, llm_providers, created, health>>

adapter_vars == <<adapter_in, adapter_out>>

manager_vars == <<default_provider, generated>>

engine_vars == <<prompt_engine, template_cache, jinja_cache, engine_call>>

\* The variables of the services above the runtimes.
service_vars == <<manager_vars, analysis, engine_vars>>

vars == <<runtime_vars, factory_vars, adapter_vars, service_vars>>

NoResult ==
  [status |-> "none", error |-> NoError, usage |-> {}, step |-> "none",
   total_requests |-> 0, total_tokens |-> 0]

NoRequest == [messages |-> 0, max_tokens |-> {}, model |-> "none"]

\* pc: where the call is suspended.  calls, raises and sleeps count the
\* invocations of _make_request, the exceptions it raised and the back-off
\* sleeps of this call.
Idle ==
  [pc |-> "idle", op |-> "none", request |-> NoRequest, attempt |-> 0,
   calls |-> 0, raises |-> 0, sleeps |-> 0, wait_time |-> 0, remaining |-> 0,
   last_exception |-> NoError, only_rate_limit |-> TRUE,
   only_retryable |-> TRUE, chunks |-> 0, result |-> NoResult]

NewCall(op, req) == [Idle EXCEPT !.pc = "running", !.op = op, !.request = req]

InFlight(c) == c.pc # "idle"

NoPass ==
  [passed |-> FALSE, gap |-> {}, waited |-> 0, op |-> "none",
   request |-> NoRequest]

\* ------------------------------------------------------- pure functions
\* Python truth of an Optional number: None and 0 are both false.
Truthy(opt) == opt # {} /\ opt # {0}

Value(opt) == CHOOSE v \in opt : TRUE

Pow2(n) == IF n = 0 THEN 1 ELSE IF n = 1 THEN 2 ELSE IF n = 2 THEN 4
           ELSE IF n = 3 THEN 8 ELSE 16

Min(a, b) == IF a < b THEN a ELSE b

Max(a, b) == IF a > b THEN a ELSE b

\* min_interval = 60.0 / self.config.max_requests_per_minute (exact for the
\* rates Configs draws).
MinInterval == SecondsPerMinute \div config.max_requests_per_minute

\* _validate_request rejecting the limit itself: `>= 32000`.
ValidateRequestRejectsLimit(req) ==
  IF req.messages = 0
  THEN {Err("LLMValidationError", {}, -1, FALSE)}
  ELSE IF Truthy(req.max_tokens) /\ Value(req.max_tokens) >= MaxTokensLimit
  THEN {Err("LLMValidationError", {}, -1, FALSE)}
  ELSE {}

\* _validate_request without its check of the message list.
ValidateRequestSkipsMessages(req) ==
  IF Truthy(req.max_tokens) /\ Value(req.max_tokens) > MaxTokensLimit
  THEN {Err("LLMValidationError", {}, -1, FALSE)}
  ELSE {}

\* _validate_request that rejects a model outside supported_models.
ValidateRequestRejectsModel(req) ==
  IF req.messages = 0
  THEN {Err("LLMValidationError", {}, -1, FALSE)}
  ELSE IF req.model = "unsupported"
  THEN {Err("LLMValidationError", {}, -1, FALSE)}
  ELSE IF Truthy(req.max_tokens) /\ Value(req.max_tokens) > MaxTokensLimit
  THEN {Err("LLMValidationError", {}, -1, FALSE)}
  ELSE {}

\* _validate_request: the error it raises, {} when it returns.  A model
\* outside supported_models is logged (lines 353-361) and changes nothing.
ValidateRequest(req) ==
  IF req.messages = 0
  THEN {Err("LLMValidationError", {}, -1, FALSE)}
  ELSE IF Truthy(req.max_tokens) /\ Value(req.max_tokens) > MaxTokensLimit
  THEN {Err("LLMValidationError", {}, -1, FALSE)}
  ELSE {}

\* The request as the call carries it once _validate_request has returned:
\* the runtime reads neither max_tokens nor the model again, so the model
\* forgets them.
Validated(req) ==
  [req EXCEPT !.max_tokens = NoRequest.max_tokens, !.model = NoRequest.model]

\* The except clauses of _make_request_with_retry: which exceptions they catch.
RetryCatches(e) == IsRateLimit(e) \/ IsLLMError(e)

\* The retry test off by one: `attempt <= self.config.max_retries`.
MayRetryOffByOne(attempt) == attempt <= config.max_retries

\* `if attempt < self.config.max_retries` of both clauses.
MayRetry(attempt) == attempt < config.max_retries

\* self.config.retry_delay_seconds * (2 ** attempt)
Backoff(attempt) == config.retry_delay_seconds * Pow2(attempt)

\* wait_time of the clause that catches e at this attempt.
RetryWait(e, attempt) ==
  IF IsRateLimit(e)
  THEN IF Truthy(e.retry_after) THEN Value(e.retry_after) ELSE Backoff(attempt)
  ELSE Backoff(attempt)

\* The catching clause without its asyncio.sleep: the loop goes straight on.
SleepSkipped(c, e) ==
  [c EXCEPT !.pc = "request", !.attempt = @ + 1, !.calls = @ + 1,
            !.last_exception = NoError]

\* The call as the catching clause leaves it for asyncio.sleep(wait_time).
Sleep(c, e) ==
  [c EXCEPT !.pc = "backoff", !.wait_time = RetryWait(e, c.attempt),
            !.remaining = RetryWait(e, c.attempt), !.sleeps = @ + 1]

\* The except clause handing on whatever it caught.
ReraiseUnwrapped(e) == e

\* The except clause of generate and stream_generate: what leaves the call.
Reraise(e) == IF IsLLMError(e) THEN e ELSE Err("LLMError", {}, -1, TRUE)

\* _update_counters storing the usage instead of adding it.
UpdateTokenCountOverwrites(n, usage) ==
  IF usage # {} THEN Value(usage) ELSE n

\* _update_counters
UpdateRequestCount(n) == n + 1

UpdateTokenCount(n, usage) == IF usage # {} THEN n + Value(usage) ELSE n

\* _update_stream_counters that does not count the request.
UpdateStreamCountSkips(n) == n

\* _update_stream_counters
UpdateStreamCount(n) == n + 1

\* _check_rate_limits sleeping the time elapsed instead of the time left.
GateWaitElapsed ==
  IF last_request_age # {} /\ Value(last_request_age) < MinInterval
  THEN Value(last_request_age)
  ELSE 0

\* _check_rate_limits, lines 371-376: the time to sleep, 0 when it does not.
GateWait ==
  IF last_request_age # {} /\ Value(last_request_age) < MinInterval
  THEN MinInterval - Value(last_request_age)
  ELSE 0

\* The call as it ends: status and error of its outcome, the usage of the
\* response it returns, the step that raised.
Finish(c, status, e, usage, step) ==
  [c EXCEPT !.pc = "done", !.wait_time = 0, !.remaining = 0,
            !.result = [status |-> status, error |-> e, usage |-> usage,
                        step |-> step,
                        total_requests |-> 0, total_tokens |-> 0]]

\* health_check reporting the two counters in each other's place.
HealthyCountsSwapped(c) ==
  [c EXCEPT !.pc = "done",
            !.result = [status |-> "healthy", error |-> NoError, usage |-> {},
                        step |-> "none",
                        total_requests |-> token_count,
                        total_tokens |-> request_count]]

\* health_check's report once the client is there.
Healthy(c) ==
  [c EXCEPT !.pc = "done",
            !.result = [status |-> "healthy", error |-> NoError, usage |-> {},
                        step |-> "none",
                        total_requests |-> request_count,
                        total_tokens |-> token_count]]

\* ------------------------------------------------- factory and manager
\* Members of LLMProvider (three of the nine).
ProviderIds == {"openai", "anthropic", "mistral"}

\* Subclasses of BaseLLM: the two adapters, and a class an application
\* registers.  "object" is a class that is no subclass of BaseLLM.
AdapterClasses == {"OpenAILLM", "AnthropicLLM"}

LLMClasses == AdapterClasses \cup {"CustomLLM"}

\* The member of LLMProvider an adapter's constructor compares with.
Vendor(cls) == IF cls = "OpenAILLM" THEN "openai" ELSE "anthropic"

\* LLMProviderConfig.  provider_is: a config built by validation holds the
\* provider as the plain string (use_enum_values = True), one built without
\* validation holds the member of LLMProvider it was given.
ProviderConfigs ==
  [provider : ProviderIds, provider_is : {"str", "enum"}, api_key : {"", "sk"}]

\* An exception raised by an attribute access or by a constructor's own code.
Raised(kind) == Err(kind, {}, -1, FALSE)

\* What the __init__ of a class an application registers may raise after
\* BaseLLM.__init__ returned; {} when it returns.
OwnOutcomes ==
  {{}} \cup {{Err(k, {}, -1, TRUE)} :
               k \in {"LLMValidationError", "LLMConnectionError", "Exception"}}

\* The calls of LLMFactory.register_provider an application makes.
Registrations ==
  {<<"mistral", "CustomLLM">>, <<"mistral", "OpenAILLM">>,
   <<"openai", "CustomLLM">>, <<"openai", "OpenAILLM">>,
   <<"mistral", "object">>}

\* What the health_check of a registered object may raise.
HealthErrors == {Err(k, {}, -1, TRUE) : k \in {"LLMError", "Exception"}}

\* BaseLLM.__init__: `config.provider.value` of its log line.
BaseInit(cfg) ==
  IF cfg.provider_is = "str" THEN {Raised("Exception")} ELSE {}

\* OpenAILLM.__init__ and AnthropicLLM.__init__: what they raise, {} when
\* they return.
AdapterInit(cls, cfg) ==
  IF BaseInit(cfg) # {} THEN BaseInit(cfg)
  ELSE IF cfg.provider # Vendor(cls) THEN {Raised("LLMValidationError")}
  ELSE IF cfg.api_key = "" THEN {Raised("LLMValidationError")}
  ELSE {}

\* The outcomes of its own __init__ that the class `table` has for cfg may
\* have: the adapters' are written out in AdapterInit.
OwnOutcomesOf(table, cfg) ==
  IF cfg.provider \in DOMAIN table /\ table[cfg.provider] = "CustomLLM"
  THEN OwnOutcomes
  ELSE {{}}

\* provider_class(config)
Construct(cls, cfg, own) ==
  IF cls \in AdapterClasses THEN AdapterInit(cls, cfg)
  ELSE IF BaseInit(cfg) # {} THEN BaseInit(cfg)
  ELSE own

NoConfig == [provider |-> "none", provider_is |-> "enum", api_key |-> ""]

\* The outcome of a call: the instance it returned (its class) or the error
\* it raised; cls is the class it looked up, constructed what the constructor
\* raised, listed what the message of the error enumerates.
NoCall ==
  [op |-> "none", config |-> NoConfig, status |-> "none", cls |-> "none",
   error |-> NoError, listed |-> {}, constructed |-> {}]

Returned(op, cfg, cls) ==
  [NoCall EXCEPT !.op = op, !.config = cfg, !.status = "instance",
                 !.cls = cls]

Failed(op, cfg, cls, e, listed, constructed) ==
  [NoCall EXCEPT !.op = op, !.config = cfg, !.status = "error", !.cls = cls,
                 !.error = e, !.listed = listed, !.constructed = constructed]

\* The except clause of create_llm handing every exception on as it is.
CreateReraiseAll(e) == e

\* The except clause of create_llm.
CreateReraise(e) == IF IsLLMError(e) THEN e ELSE Raised("LLMError")

\* LLMFactory.create_llm with the registry `table`.
CreateLLM(table, cfg, own) ==
  IF cfg.provider \notin DOMAIN table
  THEN Failed("create_llm", cfg, "none", Raised("LLMValidationError"),
              DOMAIN table, {})
  ELSE LET cls == table[cfg.provider]
           e == Construct(cls, cfg, own)
       IN IF e = {} THEN Returned("create_llm", cfg, cls)
          ELSE Failed("create_llm", cfg, cls, CreateReraise(Value(e)), {}, e)

\* cls._providers[provider] = provider_class
Registered(table, id, cls) ==
  [i \in DOMAIN table \cup {id} |-> IF i = id THEN cls ELSE table[i]]

\* The keys of a dict held as the sequence of its keys.
Keys(seq) == {seq[i] : i \in 1..Len(seq)}

\* self._llm_providers[config.provider] = llm_instance: a new key goes to the
\* end, a key that is there keeps its place.
Put(keys, id) ==
  IF \E i \in 1..Len(keys) : keys[i] = id THEN keys ELSE Append(keys, id)

\* health_check of the manager: size is the length of the table when the
\* iteration began, index the place of the provider it awaits, report
\* health_status["providers"], raisers the providers whose health_check
\* raised.
NoHealth ==
  [pc |-> "idle", size |-> 0, index |-> 0, report |-> {}, raisers |-> {},
   error |-> NoError]

\* health_status["providers"][provider.value] = entry
Entered(report, id, entry) ==
  {r \in report : r.id # id}
    \cup {[id |-> id, status |-> entry.status, by |-> entry.by,
           error |-> entry.error]}

\* What a provider's health_check may return.
ProviderReports ==
  {[status |-> st, by |-> "provider", error |-> NoError] :
     st \in {"healthy", "unhealthy"}}

\* The entry of the except clause of the manager's health_check.
ManagerEntry(e) == [status |-> "unhealthy", by |-> "manager", error |-> e]

\* The iteration of `self._llm_providers.items()` asked for its next item,
\* the table being `keys` by now: RuntimeError when its size has changed, the
\* end of the loop and the return, or the await of the next health_check.
Advance(h, keys) ==
  IF Len(keys) # h.size
  THEN [h EXCEPT !.pc = "raised", !.error = Raised("Exception")]
  ELSE IF h.index = h.size
  THEN [h EXCEPT !.pc = "returned"]
  ELSE [h EXCEPT !.pc = "awaiting", !.index = @ + 1]

\* A health report is read by the step after the call; then it is dropped.
Rest(h) == IF h.pc = "awaiting" THEN h ELSE NoHealth

\* The registry as the module leaves it at import (the optional adapters are
\* not there), a manager with no provider.
FactoryInit ==
  /\ providers = [i \in {"openai", "anthropic"} |->
                    IF i = "openai" THEN "OpenAILLM" ELSE "AnthropicLLM"]
  /\ llm_providers = <<>>
  /\ created = NoCall
  /\ health = NoHealth

\* ---------------------------------------------------------------- adapters
\* The exception classes of a vendor's SDK that _make_request names, one it
\* does not name ("PermissionDeniedError"), and the SDK's base class
\* (openai.OpenAIError, anthropic.AnthropicError).  "Exception" is an
\* exception of no SDK.
VendorErrors ==
  {"AuthenticationError", "RateLimitError", "APIConnectionError",
   "APITimeoutError", "BadRequestError", "PermissionDeniedError",
   "VendorError", "Exception"}

\* The classes an exception of class c is an instance of.
Ancestors(c) ==
  {c, "Exception"}
    \cup (IF c # "Exception" THEN {"VendorError"} ELSE {})
    \cup (IF c = "APITimeoutError" THEN {"APIConnectionError"} ELSE {})

\* The except clauses of _make_request in their order: the classes each
\* names and the error it raises.
ExceptClauses ==
  << [catches |-> {"AuthenticationError"}, kind |-> "LLMAuthenticationError"],
     [catches |-> {"RateLimitError"}, kind |-> "LLMRateLimitError"],
     [catches |-> {"APIConnectionError", "APITimeoutError"},
      kind |-> "LLMConnectionError"],
     [catches |-> {"BadRequestError"}, kind |-> "LLMValidationError"],
     [catches |-> {"VendorError"}, kind |-> "LLMError"],
     [catches |-> {"Exception"}, kind |-> "LLMError"] >>

\* The clause that handles an exception of class c: the first that names one
\* of its classes.
Handler(c) ==
  ExceptClauses[CHOOSE i \in 1..Len(ExceptClauses) :
                  /\ ExceptClauses[i].catches \cap Ancestors(c) # {}
                  /\ \A j \in 1..(i - 1) :
                       ExceptClauses[j].catches \cap Ancestors(c) = {}]

\* The header of the vendor's response the rate-limit clause reads.
RetryAfterHeader(adapter) ==
  IF adapter = "OpenAILLM" THEN "retry-after" ELSE "retry-after-seconds"

\* Values of that header: not sent ({}), empty, seconds, an HTTP date.
HeaderValues == {{}, {""}, {"0"}, {"3"}, {"Wed, 21 Oct 2026 07:28:00 GMT"}}

\* float(text): the number, {} when it raises ValueError.
ParseFloat(text) ==
  IF text = "0" THEN {0} ELSE IF text = "3" THEN {3} ELSE {}

\* What a function of an adapter returned or raised: kind of the error (or of
\* the exception that escapes), its retry_after and the type of that value;
\* the system message and vendor messages of a message conversion; the
\* fragments a stream yielded; the choices and usage of a converted response.
NoOutcome ==
  [status |-> "pending", kind |-> "none", retry_after |-> {},
   retry_after_type |-> "NoneType", system |-> <<>>, messages |-> <<>>,
   yielded |-> <<>>, choices |-> {}, usage |-> {}]

Mapped(kind, retry_after, type) ==
  [NoOutcome EXCEPT !.status = "raised", !.kind = kind,
                    !.retry_after = retry_after, !.retry_after_type = type]

\* The clause `except RateLimitError`: retry_after is None, the header as it
\* is when it is empty, or float(header), which may raise.
MapRateLimit(has_response, header) ==
  IF ~has_response \/ header = {}
  THEN Mapped("LLMRateLimitError", {}, "NoneType")
  ELSE IF Value(header) = ""
  THEN Mapped("LLMRateLimitError", {}, "str")
  ELSE IF ParseFloat(Value(header)) = {}
  THEN Mapped("ValueError", {}, "NoneType")
  ELSE Mapped("LLMRateLimitError", ParseFloat(Value(header)), "float")

\* The except clauses of _make_request applied to a vendor exception.
MapError(c, has_response, header) ==
  IF Handler(c).kind = "LLMRateLimitError"
  THEN MapRateLimit(has_response, header)
  ELSE Mapped(Handler(c).kind, {}, "NoneType")

\* LLMRole
Roles == {"system", "user", "assistant", "function"}

\* A content is a sequence of pieces of text; the empty content is <<>>.
Contents == {<<>>, <<"A">>, <<"B">>}

\* "\n\n"
BlankLine == <<"\n\n">>

\* Message lists of at most n messages.
MessageLists(n) ==
  UNION {[1..k -> [role : Roles, content : Contents]] : k \in 0..n}

\* The loop of _convert_messages_to_anthropic over messages[1..n]: the system
\* message and the vendor messages so far, or the AttributeError of
\* `message.role.value` when the role is a plain string (a message built by
\* validation, use_enum_values = True).
RECURSIVE ConvertLoop(_, _, _)
ConvertLoop(messages, role_is, n) ==
  IF n = 0
  THEN [NoOutcome EXCEPT !.status = "returned"]
  ELSE LET acc == ConvertLoop(messages, role_is, n - 1)
           m == messages[n]
       IN IF acc.status = "raised" THEN acc
          ELSE IF m.role = "system"
          THEN [acc EXCEPT !.system =
                  IF @ # <<>> THEN @ \o BlankLine \o m.content
                  ELSE m.content]
          ELSE IF m.role \in {"user", "assistant"}
          THEN IF role_is = "str"
               THEN [NoOutcome EXCEPT !.status = "raised",
                                      !.kind = "AttributeError"]
               ELSE [acc EXCEPT !.messages =
                       Append(@, [role |-> m.role, content |-> m.content])]
          ELSE acc

\* AnthropicLLM._convert_messages_to_anthropic
ConvertMessagesToAnthropic(messages, role_is) ==
  ConvertLoop(messages, role_is, Len(messages))

\* OpenAILLM._convert_messages_to_openai: `message.role.value` is evaluated
\* for every message, whatever its role.
ConvertMessagesToOpenAI(messages, role_is) ==
  IF Len(messages) > 0 /\ role_is = "str"
  THEN [NoOutcome EXCEPT !.status = "raised", !.kind = "AttributeError"]
  ELSE [NoOutcome EXCEPT !.status = "returned",
                         !.messages = [i \in 1..Len(messages) |->
                                         [role |-> messages[i].role,
                                          content |-> messages[i].content]]]

\* The events of a vendor's stream.  OpenAI sends chunks: without choices,
\* with a choice that has no delta, with a delta whose content is None, is
\* empty or is text.  Anthropic's text_stream is a stream of strings.
StreamEvents == {"no_choices", "no_delta", "no_content", "empty", "text"}

EventsOf(adapter) ==
  IF adapter = "OpenAILLM" THEN StreamEvents ELSE {"empty", "text"}

\* Sequences of at most n events of an adapter's vendor.
EventLists(adapter, n) == UNION {[1..k -> EventsOf(adapter)] : k \in 0..n}

\* The text an event carries as a content: <<>> is the empty string.
TextOf(event) == IF event = "text" THEN <<"A">> ELSE <<>>

\* Whether the loop of _stream_request yields for an event: OpenAILLM tests
\* `chunk.choices and chunk.choices[0].delta` and then `content`;
\* AnthropicLLM yields every item of text_stream.
Yields(adapter, event) ==
  IF adapter = "OpenAILLM" THEN event = "text" ELSE TRUE

\* The fragments _stream_request yields for events[1..n].
RECURSIVE Fragments(_, _, _)
Fragments(adapter, events, n) ==
  IF n = 0 THEN <<>>
  ELSE IF Yields(adapter, events[n])
  THEN Append(Fragments(adapter, events, n - 1), TextOf(events[n]))
  ELSE Fragments(adapter, events, n - 1)

\* _stream_request consumed to its end: the messages are converted, the
\* vendor's stream sends the events and then either ends or raises an
\* exception of class error.  The one except clause raises LLMError for
\* every exception, that of the conversion included.
StreamRequest(adapter, messages, role_is, events, error) ==
  LET converted == IF adapter = "OpenAILLM"
                   THEN ConvertMessagesToOpenAI(messages, role_is)
                   ELSE ConvertMessagesToAnthropic(messages, role_is)
  IN IF converted.status = "raised"
     THEN [NoOutcome EXCEPT !.status = "raised", !.kind = "LLMError"]
     ELSE IF error # "none"
     THEN [NoOutcome EXCEPT !.status = "raised", !.kind = "LLMError",
                            !.yielded = Fragments(adapter, events,
                                                  Len(events))]
     ELSE [NoOutcome EXCEPT !.status = "returned",
                            !.yielded = Fragments(adapter, events,
                                                  Len(events))]

\* response.usage of a vendor response: the attribute does not exist, is None,
\* or is an object whose token fields exist ({n}) or not ({}).  The fields are
\* prompt_tokens, completion_tokens and total_tokens for OpenAI, input_tokens
\* and output_tokens (no total) for Anthropic.
TokenFields == {{}, {1}}

NoUsage == [is |-> "None", prompt |-> {}, completion |-> {}, total |-> {}]

UsageObjects ==
  {NoUsage, [NoUsage EXCEPT !.is = "no_attribute"]}
    \cup {[is |-> "object", prompt |-> p, completion |-> c, total |-> t] :
            p \in TokenFields, c \in TokenFields, t \in {{}, {2}}}

\* A vendor response: how many choices (OpenAI) or content blocks (Anthropic)
\* it has, and its usage.
VendorResponses == [choices : 0..MaxChoices, usage : UsageObjects]

NoResponse == [choices |-> 0, usage |-> NoUsage]

\* LLMUsage(prompt_tokens, completion_tokens, total_tokens)
LLMUsage(prompt, completion, total) ==
  [prompt_tokens |-> prompt, completion_tokens |-> completion,
   total_tokens |-> total]

\* getattr(usage, field, 0)
GetOrZero(field) == IF field = {} THEN 0 ELSE Value(field)

\* LLMResponse(...) as the conversions call it, without response_time_ms.  The
\* field is declared `Optional[float] = Field(ge=0)`: a pydantic that takes
\* a field without default for required (strict) raises ValidationError.
NewLLMResponse(strict, choices, usage) ==
  IF strict
  THEN [NoOutcome EXCEPT !.status = "raised", !.kind = "ValidationError"]
  ELSE [NoOutcome EXCEPT !.status = "returned", !.choices = {choices},
                         !.usage = usage]

\* OpenAILLM._convert_openai_response: one choice per choice of the vendor;
\* the usage and its three fields are read as attributes.
ConvertOpenAIResponse(response, strict) ==
  LET u == response.usage
  IN IF u.is = "no_attribute"
        \/ (u.is = "object" /\ {} \in {u.prompt, u.completion, u.total})
     THEN [NoOutcome EXCEPT !.status = "raised", !.kind = "AttributeError"]
     ELSE NewLLMResponse(
            strict, response.choices,
            IF u.is = "None" THEN {}
            ELSE {LLMUsage(Value(u.prompt), Value(u.completion),
                           Value(u.total))})

\* AnthropicLLM._convert_anthropic_response: always one choice, holding the
\* text of the first content block or ""; the usage is read with hasattr and
\* getattr(..., 0).
ConvertAnthropicResponse(response, strict) ==
  LET u == response.usage
  IN NewLLMResponse(
       strict, 1,
       IF u.is # "object" THEN {}
       ELSE {LLMUsage(GetOrZero(u.prompt), GetOrZero(u.completion),
                      GetOrZero(u.prompt) + GetOrZero(u.completion))})

ConvertResponse(adapter, response, strict) ==
  IF adapter = "OpenAILLM" THEN ConvertOpenAIResponse(response, strict)
  ELSE ConvertAnthropicResponse(response, strict)

NoInput ==
  [fn |-> "none", adapter |-> "none", error |-> "none",
   has_response |-> FALSE, header |-> {}, messages |-> <<>>,
   role_is |-> "enum", events |-> <<>>, response |-> NoResponse,
   strict |-> FALSE]

\* The message lists of the requests that are streamed.
StreamedMessages ==
  {<<[role |-> r, content |-> <<"A">>]>> : r \in {"system", "user"}}

\* The arguments the functions are applied to.
AdapterInputs ==
  {[NoInput EXCEPT !.fn = "_make_request", !.adapter = a, !.error = c,
                   !.has_response = r, !.header = h] :
     a \in AdapterClasses, c \in VendorErrors \ {"RateLimitError"},
     r \in {TRUE}, h \in {{}}}
    \cup {[NoInput EXCEPT !.fn = "_make_request", !.adapter = a,
                          !.error = "RateLimitError", !.has_response = r,
                          !.header = h] :
            a \in AdapterClasses, r \in BOOLEAN, h \in HeaderValues}
    \cup {[NoInput EXCEPT !.fn = "_convert_messages_to_anthropic",
                          !.adapter = "AnthropicLLM", !.messages = ms,
                          !.role_is = ri] :
            ms \in MessageLists(MaxMessages), ri \in {"str", "enum"}}
    \cup UNION {{[NoInput EXCEPT !.fn = "_stream_request", !.adapter = a,
                                 !.messages = ms, !.role_is = ri,
                                 !.events = ev, !.error = c] :
                   ms \in StreamedMessages, ri \in {"str", "enum"},
                   ev \in EventLists(a, MaxEvents),
                   c \in VendorErrors \cup {"none"}} :
                 a \in AdapterClasses}
    \cup {[NoInput EXCEPT !.fn = "_convert_response", !.adapter = a,
                          !.response = r, !.strict = s] :
            a \in AdapterClasses, r \in VendorResponses, s \in BOOLEAN}

AdapterAtRest ==
  /\ adapter_in = NoInput
  /\ adapter_out = NoOutcome

AdapterDrawn ==
  /\ adapter_in \in AdapterInputs
  /\ adapter_out = NoOutcome

\* ------------------------------------------------- manager: generation
\* The argument `provider` of generate_from_template and of the operations
\* built on it: None ({}) or a provider identifier.
ProviderArguments == {{}} \cup {{i} : i \in ProviderIds}

\* `provider or self.default_provider` with the argument ignored.
ResolveProviderIgnoresArgument(provider, default) == default

\* `provider or self.default_provider`
ResolveProvider(provider, default) ==
  IF provider # {} THEN Value(provider) ELSE default

\* config.default_model of the runtime registered for a provider.
DefaultModelOf(id) ==
  IF id = "openai" THEN "gpt-default"
  ELSE IF id = "anthropic" THEN "claude-default"
  ELSE "mistral-default"

\* The argument `model`: None or the name of a model.
ModelArguments == {{}, {"gpt-x"}}

\* `model or llm_provider.config.default_model` with the argument ignored.
RequestModelIgnoresArgument(model, default_model) == default_model

\* `model or llm_provider.config.default_model`
RequestModel(model, default_model) ==
  IF model # {} /\ model # {""} THEN Value(model) ELSE default_model

\* generation_params: temperature (in tenths) and max_tokens, each given or
\* not.  2.1 and 32001 are outside the ranges of LLMRequest.
NoParams == [temperature |-> {}, max_tokens |-> {}]

GenerationParams ==
  [temperature : {{}, {3}, {MaxTemperature + 1}},
   max_tokens : {{}, {2000}, {MaxTokensLimit + 1}}]

\* A template context: each variable the three operations know is there
\* ({value}) or not ({}).
NoContext ==
  [original_query |-> {}, llm_response |-> {}, response_provider |-> {},
   validation_aspects |-> {}, code |-> {}, language |-> {},
   include_suggestions |-> {}, focus_areas |-> {}, severity_threshold |-> {}]

\* What render_template returns for a template and a context: the text is
\* known by what it was rendered from.
Rendered(template_name, context) ==
  [template |-> template_name, context |-> context]

\* LLMMessage(role=LLMRole.USER, content=rendered_prompt)
UserMessage(text) == [role |-> "user", content |-> text]

\* The fields of LLMRequest the manager sets or leaves at their defaults.
NewRequest(messages, model, temperature, max_tokens) ==
  [messages |-> messages, model |-> model, temperature |-> temperature,
   max_tokens |-> max_tokens]

\* LLMRequest(messages=messages, model=model, **params): the validation of
\* the model class.  {} stands for the ValidationError of a value outside
\* temperature's [0.0, 2.0] or max_tokens' [1, 32000]; a parameter that is
\* not given keeps the default of its field.
LLMRequest(messages, model, params) ==
  IF \/ \E t \in params.temperature : t < 0 \/ t > MaxTemperature
     \/ \E n \in params.max_tokens : n < 1 \/ n > MaxTokensLimit
  THEN {}
  ELSE {NewRequest(messages, model,
                   IF params.temperature # {} THEN Value(params.temperature)
                   ELSE DefaultTemperature,
                   IF params.max_tokens # {} THEN Value(params.max_tokens)
                   ELSE DefaultMaxTokens)}

\* What the runtime's generate gives the manager: a response or an error.
RuntimeOutcomes ==
  {[status |-> "response", error |-> NoError]}
    \cup {[status |-> "error", error |-> Err(k, {}, -1, TRUE)] :
            k \in {"LLMError", "Exception"}}

NoRuntimeOutcome == [status |-> "none", error |-> NoError]

\* What render_template does: returns the text or raises.
Renderings == {"text", "TemplateError"}

\* A call of the manager as observed.  Its arguments: op .. flag (label,
\* list and flag are the optional arguments of cross_check_response and
\* code_review); what render_template and the runtime do when they are called:
\* rendering, gives.  What it did: the provider it resolved, whether
\* render_template was called, the requests it passed to runtimes' generate
\* (with the provider of each), and what it returned or raised.
NoGenerated ==
  [op |-> "none", status |-> "none", template |-> "none",
   context |-> NoContext, model |-> {}, provider |-> {}, params |-> NoParams,
   label |-> {}, list |-> {}, flag |-> FALSE,
   rendering |-> "text", gives |-> NoRuntimeOutcome,
   resolved |-> "none", rendered |-> FALSE, invoked |-> <<>>,
   result |-> NoRuntimeOutcome]

Thrown(kind) == [status |-> "error", error |-> Raised(kind)]

\* generate_from_template(template_name, context, model, provider,
\* generation_params) within call c.
GenerateFromTemplate(c, template_name, context, model, provider, params) ==
  LET resolved == ResolveProvider(provider, default_provider)
      call0 == [c EXCEPT !.status = "done", !.template = template_name,
                         !.context = context, !.model = model,
                         !.provider = provider, !.params = params,
                         !.resolved = resolved]
      request == LLMRequest(<<UserMessage(Rendered(template_name, context))>>,
                            RequestModel(model, DefaultModelOf(resolved)),
                            params)
  IN IF resolved \notin Keys(llm_providers)
     THEN [call0 EXCEPT !.result = Thrown("ValueError")]
     ELSE IF c.rendering # "text"
     THEN [call0 EXCEPT !.rendered = TRUE, !.result = Thrown(c.rendering)]
     ELSE IF request = {}
     THEN [call0 EXCEPT !.rendered = TRUE,
                        !.result = Thrown("ValidationError")]
     ELSE [call0 EXCEPT !.rendered = TRUE,
                        !.invoked = <<[provider |-> resolved,
                                       request |-> Value(request)]>>,
                        !.result = c.gives]

\* The arguments of cross_check_response and code_review that are optional.
Labels == {{}, {""}, {"openai"}}

Lists == {{}, {<<>>}, {<<"accuracy">>}}

\* The context of cross_check_response with its optional keys always set.
CrossCheckContextKeepsEmpty(response_provider, validation_aspects) ==
  [NoContext EXCEPT !.original_query = {"query"},
                    !.llm_response = {"response"},
                    !.response_provider = response_provider,
                    !.validation_aspects = validation_aspects]

\* The context cross_check_response builds (lines 193-202).
CrossCheckContext(response_provider, validation_aspects) ==
  [NoContext EXCEPT !.original_query = {"query"},
                    !.llm_response = {"response"},
                    !.response_provider =
                      IF response_provider \notin {{}, {""}}
                      THEN response_provider ELSE {},
                    !.validation_aspects =
                      IF validation_aspects \notin {{}, {<<>>}}
                      THEN validation_aspects ELSE {}]

\* The context code_review builds (lines 237-247).
CodeReviewContext(focus_areas, severity_threshold, include_suggestions) ==
  [NoContext EXCEPT !.code = {"code"}, !.language = {"python"},
                    !.include_suggestions = {include_suggestions},
                    !.focus_areas =
                      IF focus_areas \notin {{}, {<<>>}}
                      THEN focus_areas ELSE {},
                    !.severity_threshold =
                      IF severity_threshold \notin {{}, {""}}
                      THEN severity_threshold ELSE {}]

\* generation_params of cross_check_response: temperature 0.3.
CrossCheckParams == [temperature |-> {3}, max_tokens |-> {2000}]

\* generation_params of code_review: temperature 0.2.
CodeReviewParams == [temperature |-> {2}, max_tokens |-> {3000}]

\* The registries register_provider can build: provider identifiers in the
\* order of their first registration.
Registries ==
  {k \in UNION {[1..n -> ProviderIds] : n \in 0..Cardinality(ProviderIds)} :
     \A i, j \in 1..Len(k) : i # j => k[i] # k[j]}

ManagerAtRest ==
  /\ default_provider = "openai"
  /\ generated = NoGenerated

\* cross_check_response(original_query, response_to_check,
\* response_provider, validation_aspects, checker_provider) within call c
CrossCheckResponse(c) ==
  GenerateFromTemplate(c, "crosscheck/response_validation",
                       CrossCheckContext(c.label, c.list), {}, c.provider,
                       CrossCheckParams)

\* code_review(code, language, focus_areas, severity_threshold,
\* include_suggestions, provider) within call c
CodeReview(c) ==
  GenerateFromTemplate(c, "tasks/code_review",
                       CodeReviewContext(c.list, c.label, c.flag), {},
                       c.provider, CodeReviewParams)

\* The calls of the manager's three operations.
ManagerCalls ==
  {[NoGenerated EXCEPT !.op = "generate_from_template",
                       !.status = "pending", !.template = t, !.model = m,
                       !.provider = p, !.params = g, !.rendering = r,
                       !.gives = o] :
     t \in {"crosscheck/response_validation", "custom/summary"},
     m \in ModelArguments, p \in ProviderArguments, g \in GenerationParams,
     r \in Renderings, o \in RuntimeOutcomes}
    \cup {[NoGenerated EXCEPT !.op = "cross_check_response",
                              !.status = "pending", !.label = l, !.list = a,
                              !.provider = p, !.rendering = r, !.gives = o] :
            l \in Labels, a \in Lists, p \in ProviderArguments,
            r \in Renderings, o \in RuntimeOutcomes}
    \cup {[NoGenerated EXCEPT !.op = "code_review", !.status = "pending",
                              !.label = l, !.list = a, !.flag = f,
                              !.provider = p, !.rendering = r, !.gives = o] :
            l \in Labels, a \in Lists, f \in BOOLEAN,
            p \in ProviderArguments, r \in Renderings,
            o \in RuntimeOutcomes}

ManagerDrawn ==
  /\ default_provider \in ProviderIds
  /\ generated \in ManagerCalls

\* The manager after registrations.
RegistryDrawn ==
  /\ providers = [i \in {"openai", "anthropic"} |->
                    IF i = "openai" THEN "OpenAILLM" ELSE "AnthropicLLM"]
  /\ llm_providers \in Registries
  /\ created = NoCall
  /\ health = NoHealth

\* ------------------------------------------------------ analysis service
\* A text is a sequence of tokens: numerals, the words and signs the patterns
\* of _extract_confidence_score look for, a line break, the keywords of
\* _extract_overall_assessment in several cases, and other text.
Numerals == {"0", "0.5", "1", "8", "10", "15"}

Vocabulary ==
  Numerals
    \cup {"confidence", "Score", "/", "out of", "\n", "Excellent", "good",
          "FAIR", "poor", "text"}

\* Texts of at most n tokens.
Texts(n) == UNION {[1..k -> Vocabulary] : k \in 0..n}

\* str.lower() of a token
Lower(token) ==
  IF token = "Score" THEN "score"
  ELSE IF token = "Excellent" THEN "excellent"
  ELSE IF token = "FAIR" THEN "fair"
  ELSE token

\* Scores are counted in hundredths: 1.0 is Unit.
Unit == 100

\* float(numeral), in hundredths
Float(numeral) ==
  IF numeral = "0" THEN 0
  ELSE IF numeral = "0.5" THEN 50
  ELSE IF numeral = "1" THEN 100
  ELSE IF numeral = "8" THEN 800
  ELSE IF numeral = "10" THEN 1000
  ELSE 1500

\* The least element of a non-empty set of numbers.
Least(set) == CHOOSE i \in set : \A j \in set : i <= j

\* r"word.*?(\d+(?:\.\d+)?)": the numeral it captures, {} when it does not
\* match.  A start is an occurrence of the word with a numeral after it on the
\* same line (`.` does not match a line break); the search takes the
\* leftmost start and, `.*?` being lazy, the first numeral after it.
SearchAfterWord(text, word) ==
  LET NumeralsAfter(i) ==
        {j \in (i + 1)..Len(text) :
           /\ text[j] \in Numerals
           /\ \A k \in (i + 1)..(j - 1) : text[k] # "\n"}
      starts == {i \in 1..Len(text) :
                   Lower(text[i]) = word /\ NumeralsAfter(i) # {}}
  IN IF starts = {} THEN {}
     ELSE {text[Least(NumeralsAfter(Least(starts)))]}

\* r"(\d+(?:\.\d+)?)\s*(?:/\s*10|out\s+of\s+10)": the leftmost numeral that
\* is followed, line breaks aside (\s), by "/" or "out of" and then by 10.
SearchOutOfTen(text) ==
  LET Follows(i, j) ==
        /\ j > i
        /\ \A k \in (i + 1)..(j - 1) : text[k] = "\n"
      starts == {i \in 1..Len(text) :
                   /\ text[i] \in Numerals
                   /\ \E j, k \in 1..Len(text) :
                        /\ Follows(i, j)
                        /\ text[j] \in {"/", "out of"}
                        /\ Follows(j, k)
                        /\ text[k] = "10"}
  IN IF starts = {} THEN {} ELSE {text[Least(starts)]}

\* The loop over the three patterns: the capture of the first that matches.
SearchPatterns(text) ==
  IF SearchAfterWord(text, "confidence") # {}
  THEN SearchAfterWord(text, "confidence")
  ELSE IF SearchAfterWord(text, "score") # {}
  THEN SearchAfterWord(text, "score")
  ELSE SearchOutOfTen(text)

\* Lines 159-161 with `score >= 1` for `score > 1`.
NormaliseFromOne(score) ==
  Min(Max(IF score >= Unit THEN score \div 10 ELSE score, 0), Unit)

\* Lines 159-161: a score over 1 is divided by 10; then the clamp to [0, 1].
Normalise(score) ==
  Min(Max(IF score > Unit THEN score \div 10 ELSE score, 0), Unit)

\* _extract_confidence_score(validation_content): {} is None.
ExtractConfidenceScore(text) ==
  IF SearchPatterns(text) = {} THEN {}
  ELSE {Normalise(Float(Value(SearchPatterns(text))))}

\* `keyword in content_lower`
Occurs(keyword, text) == \E i \in 1..Len(text) : Lower(text[i]) = keyword

\* _extract_overall_assessment with its tests in the opposite order.
ExtractOverallAssessmentWorstFirst(text) ==
  IF Occurs("poor", text) THEN "Poor"
  ELSE IF Occurs("fair", text) THEN "Fair"
  ELSE IF Occurs("good", text) THEN "Good"
  ELSE IF Occurs("excellent", text) THEN "Excellent"
  ELSE "Unknown"

\* _extract_overall_assessment(validation_content)
ExtractOverallAssessment(text) ==
  IF Occurs("excellent", text) THEN "Excellent"
  ELSE IF Occurs("good", text) THEN "Good"
  ELSE IF Occurs("fair", text) THEN "Fair"
  ELSE IF Occurs("poor", text) THEN "Poor"
  ELSE "Unknown"

NoAnalysis ==
  [fn |-> "none", status |-> "none", text |-> <<>>, score |-> {},
   assessment |-> "none"]

Extractions == {"_extract_confidence_score", "_extract_overall_assessment"}

AnalysisAtRest == analysis = NoAnalysis

AnalysisDrawn ==
  analysis \in {[NoAnalysis EXCEPT !.fn = f, !.status = "pending",
                                   !.text = t] :
                  f \in Extractions, t \in Texts(MaxWords)}

\* ------------------------------------------------- prompt engine: cache
\* The names of the templates an application asks for.
TemplateNames ==
  {"crosscheck/response_validation", "tasks/code_review", "tasks/summary"}

\* What the disk gives load_template: the file is not found, it cannot be
\* read or parsed into a PromptTemplate, or it is loaded.
Files == {"missing", "unreadable", "loaded"}

\* The two caches.
Caches(templates, jinja) == [templates |-> templates, jinja |-> jinja]

\* The outcome of an operation of the engine: the caches it leaves, what it
\* raised, the key it evicted and whether that key had a compiled template.
Outcome(caches, error, evicted, compiled) ==
  [caches |-> caches, error |-> error, evicted |-> evicted,
   compiled |-> compiled]

\* _evict_oldest_template that leaves the compiled template in place.
EvictOldestTemplateOnly(c) ==
  IF c.templates = <<>> THEN c
  ELSE Caches(Tail(c.templates), c.jinja)

\* _evict_oldest_template: next(iter(dict)) is the key inserted first.
EvictOldestTemplate(c) ==
  IF c.templates = <<>> THEN c
  ELSE Caches(Tail(c.templates), c.jinja \ {Head(c.templates)})

\* load_template(template_name)
LoadTemplate(c, e, template_name, file) ==
  IF template_name \in Keys(c.templates) /\ ~e.auto_reload
  THEN Outcome(c, {}, {}, FALSE)
  ELSE IF file = "missing" THEN Outcome(c, {"TemplateNotFound"}, {}, FALSE)
  ELSE IF file = "unreadable" THEN Outcome(c, {"TemplateError"}, {}, FALSE)
  ELSE LET full == Len(c.templates) >= e.cache_size
           d == IF full THEN EvictOldestTemplate(c) ELSE c
       IN Outcome(Caches(Put(d.templates, template_name), d.jinja), {},
                  IF full /\ c.templates # <<>>
                  THEN {Head(c.templates)} ELSE {},
                  full /\ c.templates # <<>>
                    /\ Head(c.templates) \in c.jinja)

\* _get_jinja_template(template_name, template.template) after what load
\* stands for the outcome of load_template; compiles tells whether
\* jinja_env.from_string accepts the content.
GetJinjaTemplate(load, e, template_name, compiles) ==
  IF template_name \in load.caches.jinja /\ ~e.auto_reload THEN load
  ELSE IF ~compiles THEN [load EXCEPT !.error = {"TemplateError"}]
  ELSE [load EXCEPT !.caches.jinja = @ \cup {template_name}]

\* render_template(template_name, context): complete tells whether the
\* context has the required variables, renders whether render() succeeds.
RenderTemplate(c, e, template_name, file, complete, compiles, renders) ==
  LET load == LoadTemplate(c, e, template_name, file)
      got == GetJinjaTemplate(load, e, template_name, compiles)
  IN IF load.error # {} THEN load
     ELSE IF ~complete THEN [load EXCEPT !.error = {"ValueError"}]
     ELSE IF got.error # {} THEN got
     ELSE IF ~renders THEN [got EXCEPT !.error = {"TemplateError"}]
     ELSE got

\* validate_template(template_name): it returns False where error is set.
ValidateTemplate(c, e, template_name, file, compiles) ==
  LET load == LoadTemplate(c, e, template_name, file)
  IN IF load.error # {} THEN load
     ELSE GetJinjaTemplate(load, e, template_name, compiles)

\* clear_cache()
ClearCache == Outcome(Caches(<<>>, {}), {}, {}, FALSE)

NoEngineCall ==
  [op |-> "none", template_name |-> "none", error |-> {}, evicted |-> {},
   compiled |-> FALSE]

\* PromptEngine.__init__ with cache_size >= 1.
EngineInit ==
  /\ prompt_engine \in [cache_size : 1..MaxCacheSize, auto_reload : BOOLEAN]
  /\ template_cache = <<>>
  /\ jinja_cache = {}
  /\ engine_call = NoEngineCall

EngineAtRest ==
  /\ prompt_engine = [cache_size |-> 1, auto_reload |-> FALSE]
  /\ template_cache = <<>>
  /\ jinja_cache = {}
  /\ engine_call = NoEngineCall

\* ------------------------------------------------------------------ Init
RuntimeInit ==
  /\ \/ config \in Configs /\ max_in_flight = 1
     \/ config \in ConcurrentConfigs /\ max_in_flight = Cardinality(Callers)
  /\ client = {}
  /\ request_count = 0
  /\ token_count = 0
  /\ last_request_age = {}
  /\ call = [p \in Callers |-> Idle]
  /\ completed = Idle
  /\ started = 0
  /\ initialisations = 0
  /\ last_pass = NoPass
  /\ responses = [count |-> 0, tokens |-> 0]
  /\ streams_done = 0

Init ==
  RuntimeInit /\ FactoryInit /\ AdapterAtRest /\ ManagerAtRest
    /\ AnalysisAtRest /\ EngineAtRest

\* --------------------------------------------------------------- actions
\* The call of caller p ends with record d.
Ends(p, d) ==
  /\ call' = [call EXCEPT ![p] = Idle]
  /\ completed' = d
  /\ last_pass' = NoPass

\* Caller p goes on with record c and no call ends.
Goes(p, c) ==
  /\ call' = [call EXCEPT ![p] = c]
  /\ completed' = Idle
  /\ last_pass' = NoPass

\* From line 383 of _check_rate_limits to the next suspension point of
\* generate / stream_generate: the timestamp, validation, the first attempt.
Dispatch(p, c) ==
  /\ last_request_age' = {0}
  /\ last_pass' = [passed |-> TRUE, gap |-> last_request_age,
                   waited |-> c.wait_time, op |-> c.op,
                   request |-> c.request]
  /\ LET v == ValidateRequest(c.request)
         d == [c EXCEPT !.wait_time = 0]
         r == [d EXCEPT !.request = Validated(c.request)]
     IN IF v # {}
        THEN /\ call' = [call EXCEPT ![p] = Idle]
             /\ completed' =
                  Finish(d, "error", Reraise(Value(v)), {}, "validate")
        ELSE /\ call' = [call EXCEPT ![p] =
                  IF c.op = "generate"
                  THEN [r EXCEPT !.pc = "request", !.attempt = 0, !.calls = 1]
                  ELSE [r EXCEPT !.pc = "stream"]]
             /\ completed' = Idle

\* _check_rate_limits up to its sleep, or to its end when it does not sleep.
CheckRateLimits(p, c) ==
  IF GateWait > 0
  THEN /\ Goes(p, [c EXCEPT !.pc = "gate_sleep", !.remaining = GateWait,
                            !.wait_time = GateWait])
       /\ UNCHANGED last_request_age
  ELSE Dispatch(p, c)

\* What follows `await self._ensure_initialised()` in the three operations.
AfterInitialised(p, c) ==
  IF c.op = "health_check"
  THEN /\ Ends(p, Healthy(c))
       /\ UNCHANGED last_request_age
  ELSE CheckRateLimits(p, c)

\* A caller enters generate, stream_generate or health_check.
Start(p, op, req) ==
  /\ ~InFlight(call[p])
  /\ started < MaxCalls
  /\ Cardinality({q \in Callers : InFlight(call[q])}) < max_in_flight
  /\ op = "health_check" => req = NoRequest
  /\ started' = started + 1
  /\ IF client = {}
     THEN /\ initialisations' = initialisations + 1
          /\ Goes(p, [NewCall(op, req) EXCEPT !.pc = "initialising"])
          /\ UNCHANGED last_request_age
     ELSE /\ AfterInitialised(p, NewCall(op, req))
          /\ UNCHANGED initialisations
  /\ UNCHANGED <<factory_vars, adapter_vars, service_vars,
                 config, max_in_flight, client, request_count, token_count,
                 responses, streams_done>>

\* `self._client = await self._initialise_client()` completes.
InitialiseReturns(p) ==
  /\ call[p].pc = "initialising"
  /\ client' = {"client"}
  /\ AfterInitialised(p, call[p])
  /\ UNCHANGED <<factory_vars, adapter_vars, service_vars,
                 config, max_in_flight, request_count, token_count, started,
                 initialisations, responses, streams_done>>

\* _initialise_client raises: outside the try of generate and stream_generate,
\* inside the try of health_check.
InitialiseRaises(p, e) ==
  /\ call[p].pc = "initialising"
  /\ initialisations' = initialisations - 1
  /\ Ends(p, IF call[p].op = "health_check"
             THEN Finish(call[p], "unhealthy", e, {}, "initialise")
             ELSE Finish(call[p], "error", e, {}, "initialise"))
  /\ UNCHANGED <<factory_vars, adapter_vars, service_vars,
                 config, max_in_flight, client, request_count, token_count,
                 last_request_age, started, responses, streams_done>>

\* asyncio.sleep(wait_time) of _check_rate_limits is over.
GateWake(p) ==
  /\ call[p].pc = "gate_sleep"
  /\ call[p].remaining = 0
  /\ Dispatch(p, call[p])
  /\ UNCHANGED <<factory_vars, adapter_vars, service_vars,
                 config, max_in_flight, client, request_count, token_count,
                 started, initialisations, responses, streams_done>>

\* _make_request returns a response with this usage.
AdapterReturns(p, usage) ==
  /\ call[p].pc = "request"
  /\ request_count' = UpdateRequestCount(request_count)
  /\ token_count' = UpdateTokenCount(token_count, usage)
  /\ responses' = [count |-> responses.count + 1,
                   tokens |-> responses.tokens
                                + (IF usage = {} THEN 0 ELSE Value(usage))]
  /\ Ends(p, Finish(call[p], "response", NoError, usage, "none"))
  /\ UNCHANGED <<factory_vars, adapter_vars, service_vars,
                 config, max_in_flight, client, last_request_age, started,
                 initialisations, streams_done>>

\* _make_request raises e.
AdapterRaises(p, e) ==
  /\ call[p].pc = "request"
  /\ LET c == call[p]
         seen == [c EXCEPT
                    !.raises = @ + 1,
                    !.only_rate_limit = @ /\ e.kind = "LLMRateLimitError",
                    !.only_retryable = @ /\ e.kind \in
                       {"LLMRateLimitError", "LLMConnectionError", "LLMError"}]
         caught == [seen EXCEPT !.last_exception = e]
     IN IF ~RetryCatches(e)
        THEN Ends(p, Finish(seen, "error", Reraise(e), {}, "adapter"))
        ELSE IF MayRetry(c.attempt)
        THEN Goes(p, Sleep(caught, e))
        ELSE Ends(p, Finish(caught, "error", Reraise(e), {}, "adapter"))
  /\ UNCHANGED <<factory_vars, adapter_vars, service_vars,
                 config, max_in_flight, client, request_count, token_count,
                 last_request_age, started, initialisations, responses,
                 streams_done>>

\* asyncio.sleep(wait_time) of the retry loop is over: the next attempt.
\* last_exception is not read again before the next clause overwrites it, so
\* the model forgets it here.
BackoffWake(p) ==
  /\ call[p].pc = "backoff"
  /\ call[p].remaining = 0
  /\ Goes(p, [call[p] EXCEPT !.pc = "request", !.attempt = @ + 1,
                             !.calls = @ + 1, !.wait_time = 0,
                             !.last_exception = NoError])
  /\ UNCHANGED <<factory_vars, adapter_vars, service_vars,
                 config, max_in_flight, client, request_count, token_count,
                 last_request_age, started, initialisations, responses,
                 streams_done>>

\* _stream_request yields a chunk, which stream_generate forwards.
StreamYields(p) ==
  /\ call[p].pc = "stream"
  /\ call[p].chunks < MaxChunks
  /\ Goes(p, [call[p] EXCEPT !.chunks = @ + 1])
  /\ UNCHANGED <<factory_vars, adapter_vars, service_vars,
                 config, max_in_flight, client, request_count, token_count,
                 last_request_age, started, initialisations, responses,
                 streams_done>>

\* _stream_request is exhausted: _update_stream_counters.
StreamEnds(p) ==
  /\ call[p].pc = "stream"
  /\ request_count' = UpdateStreamCount(request_count)
  /\ streams_done' = streams_done + 1
  /\ Ends(p, Finish(call[p], "stream_done", NoError, {}, "none"))
  /\ UNCHANGED <<factory_vars, adapter_vars, service_vars,
                 config, max_in_flight, client, token_count,
                 last_request_age, started, initialisations, responses>>

\* _stream_request raises e.
StreamRaises(p, e) ==
  /\ call[p].pc = "stream"
  /\ Ends(p, Finish([call[p] EXCEPT !.raises = @ + 1],
                    "error", Reraise(e), {}, "stream"))
  /\ UNCHANGED <<factory_vars, adapter_vars, service_vars,
                 config, max_in_flight, client, request_count, token_count,
                 last_request_age, started, initialisations, responses,
                 streams_done>>

\* One second passes: the timestamp ages (ages of min_interval and more are
\* not told apart) and every sleeper has one second less to sleep.
Tick ==
  /\ last_request_age' =
       IF last_request_age = {} THEN {}
       ELSE {Min(Value(last_request_age) + 1, MinInterval)}
  /\ call' = [p \in Callers |->
                [call[p] EXCEPT !.remaining = Max(@ - 1, 0)]]
  /\ completed' = Idle
  /\ last_pass' = NoPass
  /\ UNCHANGED <<factory_vars, adapter_vars, service_vars,
                 config, max_in_flight, client, request_count, token_count,
                 started, initialisations, responses, streams_done>>

Next ==
  \/ \E p \in Callers, op \in Ops, req \in Requests \cup {NoRequest} :
       Start(p, op, req)
  \/ \E p \in Callers : InitialiseReturns(p)
  \/ \E p \in Callers, e \in PlainErrors : InitialiseRaises(p, e)
  \/ \E p \in Callers : GateWake(p)
  \/ \E p \in Callers, u \in Usages : AdapterReturns(p, u)
  \/ \E p \in Callers : \E e \in AdapterErrors(call[p].attempt) :
       AdapterRaises(p, e)
  \/ \E p \in Callers : BackoffWake(p)
  \/ \E p \in Callers : StreamYields(p)
  \/ \E p \in Callers : StreamEnds(p)
  \/ \E p \in Callers, e \in PlainErrors : StreamRaises(p, e)
  \/ Tick

Spec == Init /\ [][Next]_vars

\* A step of the call of caller p once it is started: what it awaits answers
\* (a client, a response, a chunk, an exception) or its sleep is over.
Resumes(p) ==
  \/ InitialiseReturns(p)
  \/ \E e \in PlainErrors : InitialiseRaises(p, e)
  \/ GateWake(p)
  \/ \E u \in Usages : AdapterReturns(p, u)
  \/ \E e \in AdapterErrors(call[p].attempt) : AdapterRaises(p, e)
  \/ BackoffWake(p)
  \/ StreamYields(p)
  \/ StreamEnds(p)
  \/ \E e \in PlainErrors : StreamRaises(p, e)

\* The runtime with calls issued one after the other.
SequentialInit == Init /\ max_in_flight = 1

\* The runtime under the scheduling of asyncio: time passes, the event loop
\* resumes a coroutine whose sleep is over, and every awaited vendor call
\* answers, by a result or by an exception.
LiveSpec ==
  /\ SequentialInit
  /\ [][Next]_vars
  /\ WF_vars(Tick)
  /\ \A p \in Callers : WF_vars(Resumes(p))

\* ------------------------------------------- factory and manager: actions
\* The runtime at rest while the factory and the manager are exercised.
RuntimeAtRest ==
  /\ RuntimeInit
  /\ max_in_flight = 1
  /\ config = [max_retries |-> 0, retry_delay_seconds |-> 1,
               max_requests_per_minute |-> 60]

\* LLMFactory.create_llm(config)
FactoryCreate(cfg, own) ==
  /\ created' = CreateLLM(providers, cfg, own)
  /\ health' = Rest(health)
  /\ UNCHANGED <<runtime_vars, adapter_vars, service_vars, providers,
                 llm_providers>>

\* LLMFactory.register_provider(provider, provider_class)
FactoryRegister(id, cls) ==
  /\ IF cls \in LLMClasses
     THEN /\ providers' = Registered(providers, id, cls)
          /\ created' = [NoCall EXCEPT !.op = "register_provider",
                                       !.config.provider = id,
                                       !.status = "registered", !.cls = cls]
     ELSE /\ created' = Failed("register_provider",
                               [NoConfig EXCEPT !.provider = id], cls,
                               Raised("LLMValidationError"), {}, {})
          /\ UNCHANGED providers
  /\ health' = Rest(health)
  /\ UNCHANGED <<runtime_vars, adapter_vars, service_vars, llm_providers>>

\* LLMManager.register_provider(config): the except clause formats
\* `config.provider.value` before it raises again.
ManagerRegister(cfg, own) ==
  /\ LET out == CreateLLM(providers, cfg, own)
     IN IF out.status = "instance"
        THEN /\ llm_providers' = Put(llm_providers, cfg.provider)
             /\ created' = [out EXCEPT !.op = "LLMManager.register_provider"]
        ELSE /\ created' =
                  [out EXCEPT !.op = "LLMManager.register_provider",
                              !.error = IF BaseInit(cfg) # {}
                                        THEN Value(BaseInit(cfg)) ELSE @]
             /\ UNCHANGED llm_providers
  /\ health' = IF health.pc = "awaiting" THEN health ELSE NoHealth
  /\ UNCHANGED <<runtime_vars, adapter_vars, service_vars, providers>>

\* LLMManager.health_check up to the await of the first provider, or to its
\* return when there is none.
HealthStart ==
  /\ health.pc # "awaiting"
  /\ health' = Advance([NoHealth EXCEPT !.size = Len(llm_providers)],
                       llm_providers)
  /\ created' = NoCall
  /\ UNCHANGED <<runtime_vars, adapter_vars, service_vars, providers,
                 llm_providers>>

\* The awaited health_check returns its report.
HealthProviderReturns(entry) ==
  /\ health.pc = "awaiting"
  /\ health' =
       Advance([health EXCEPT
                  !.report = Entered(@, llm_providers[health.index], entry)],
               llm_providers)
  /\ created' = NoCall
  /\ UNCHANGED <<runtime_vars, adapter_vars, service_vars, providers,
                 llm_providers>>

\* The manager's health_check without its try: what the awaited health_check
\* raises leaves the call.
HealthProviderRaisesUncaught(e) ==
  /\ health.pc = "awaiting"
  /\ health' = [health EXCEPT !.pc = "raised", !.error = e]
  /\ created' = NoCall
  /\ UNCHANGED <<runtime_vars, adapter_vars, service_vars, providers,
                 llm_providers>>

\* The awaited health_check raises e.
HealthProviderRaises(e) ==
  /\ health.pc = "awaiting"
  /\ health' =
       Advance([health EXCEPT
                  !.report = Entered(@, llm_providers[health.index],
                                     ManagerEntry(e)),
                  !.raisers = @ \cup {llm_providers[health.index]}],
               llm_providers)
  /\ created' = NoCall
  /\ UNCHANGED <<runtime_vars, adapter_vars, service_vars, providers,
                 llm_providers>>

FactoryNext ==
  \/ \E cfg \in ProviderConfigs :
       \E own \in OwnOutcomesOf(providers, cfg) : FactoryCreate(cfg, own)
  \/ \E r \in Registrations : FactoryRegister(r[1], r[2])
  \/ \E cfg \in ProviderConfigs :
       \E own \in OwnOutcomesOf(providers, cfg) : ManagerRegister(cfg, own)
  \/ HealthStart
  \/ \E entry \in ProviderReports : HealthProviderReturns(entry)
  \/ \E e \in HealthErrors : HealthProviderRaises(e)

FactorySpecInit ==
  RuntimeAtRest /\ FactoryInit /\ AdapterAtRest /\ ManagerAtRest
    /\ AnalysisAtRest /\ EngineAtRest

FactorySpec == FactorySpecInit /\ [][FactoryNext]_vars


\* ------------------------------------------------------ adapters: actions
\* The vendor call of _make_request raises the exception adapter_in names.
MakeRequestRaises ==
  /\ adapter_in.fn = "_make_request"
  /\ adapter_out = NoOutcome
  /\ adapter_out' = MapError(adapter_in.error, adapter_in.has_response,
                             adapter_in.header)
  /\ UNCHANGED <<runtime_vars, factory_vars, service_vars, adapter_in>>

\* _convert_messages_to_anthropic(messages)
ConvertMessages ==
  /\ adapter_in.fn = "_convert_messages_to_anthropic"
  /\ adapter_out = NoOutcome
  /\ adapter_out' = ConvertMessagesToAnthropic(adapter_in.messages,
                                               adapter_in.role_is)
  /\ UNCHANGED <<runtime_vars, factory_vars, service_vars, adapter_in>>

\* _stream_request(request), consumed until it ends or raises
StreamRequestRuns ==
  /\ adapter_in.fn = "_stream_request"
  /\ adapter_out = NoOutcome
  /\ adapter_out' = StreamRequest(adapter_in.adapter, adapter_in.messages,
                                  adapter_in.role_is, adapter_in.events,
                                  adapter_in.error)
  /\ UNCHANGED <<runtime_vars, factory_vars, service_vars, adapter_in>>

\* _convert_openai_response / _convert_anthropic_response
ConvertsResponse ==
  /\ adapter_in.fn = "_convert_response"
  /\ adapter_out = NoOutcome
  /\ adapter_out' = ConvertResponse(adapter_in.adapter, adapter_in.response,
                                    adapter_in.strict)
  /\ UNCHANGED <<runtime_vars, factory_vars, service_vars, adapter_in>>

AdapterNext ==
  \/ MakeRequestRaises
  \/ ConvertMessages
  \/ StreamRequestRuns
  \/ ConvertsResponse

AdapterSpecInit ==
  RuntimeAtRest /\ FactoryInit /\ AdapterDrawn /\ ManagerAtRest
    /\ AnalysisAtRest /\ EngineAtRest

AdapterSpec == AdapterSpecInit /\ [][AdapterNext]_vars

\* ------------------------------------------------------- manager: actions
CallGenerateFromTemplate ==
  /\ generated.status = "pending"
  /\ generated.op = "generate_from_template"
  /\ generated' = GenerateFromTemplate(generated, generated.template,
                                       generated.context, generated.model,
                                       generated.provider, generated.params)
  /\ UNCHANGED <<runtime_vars, factory_vars, adapter_vars, default_provider,
                 analysis, engine_vars>>

CallCrossCheckResponse ==
  /\ generated.status = "pending"
  /\ generated.op = "cross_check_response"
  /\ generated' = CrossCheckResponse(generated)
  /\ UNCHANGED <<runtime_vars, factory_vars, adapter_vars, default_provider,
                 analysis, engine_vars>>

CallCodeReview ==
  /\ generated.status = "pending"
  /\ generated.op = "code_review"
  /\ generated' = CodeReview(generated)
  /\ UNCHANGED <<runtime_vars, factory_vars, adapter_vars, default_provider,
                 analysis, engine_vars>>

ManagerNext ==
  \/ CallGenerateFromTemplate
  \/ CallCrossCheckResponse
  \/ CallCodeReview

ManagerSpecInit ==
  RuntimeAtRest /\ RegistryDrawn /\ AdapterAtRest /\ ManagerDrawn
    /\ AnalysisAtRest /\ EngineAtRest

ManagerSpec == ManagerSpecInit /\ [][ManagerNext]_vars

\* ------------------------------------------------------ analysis: actions
ExtractsConfidenceScore ==
  /\ analysis.status = "pending"
  /\ analysis.fn = "_extract_confidence_score"
  /\ analysis' = [analysis EXCEPT
                   !.status = "done",
                   !.score = ExtractConfidenceScore(analysis.text)]
  /\ UNCHANGED <<runtime_vars, factory_vars, adapter_vars, manager_vars,
                 engine_vars>>

ExtractsOverallAssessment ==
  /\ analysis.status = "pending"
  /\ analysis.fn = "_extract_overall_assessment"
  /\ analysis' = [analysis EXCEPT !.status = "done",
                                  !.assessment =
                                    ExtractOverallAssessment(analysis.text)]
  /\ UNCHANGED <<runtime_vars, factory_vars, adapter_vars, manager_vars,
                 engine_vars>>

AnalysisNext == ExtractsConfidenceScore \/ ExtractsOverallAssessment

AnalysisSpecInit ==
  RuntimeAtRest /\ FactoryInit /\ AdapterAtRest /\ ManagerAtRest
    /\ AnalysisDrawn /\ EngineAtRest

AnalysisSpec == AnalysisSpecInit /\ [][AnalysisNext]_vars

\* ------------------------------------------------- prompt engine: actions
\* The engine after an operation with this outcome.
Leaves(op, template_name, out) ==
  /\ template_cache' = out.caches.templates
  /\ jinja_cache' = out.caches.jinja
  /\ engine_call' = [op |-> op, template_name |-> template_name,
                     error |-> out.error, evicted |-> out.evicted,
                     compiled |-> out.compiled]

CallLoadTemplate(template_name, file) ==
  /\ Leaves("load_template", template_name,
            LoadTemplate(Caches(template_cache, jinja_cache), prompt_engine,
                         template_name, file))
  /\ UNCHANGED <<runtime_vars, factory_vars, adapter_vars, manager_vars,
                 analysis, prompt_engine>>

CallRenderTemplate(template_name, file, complete, compiles, renders) ==
  /\ Leaves("render_template", template_name,
            RenderTemplate(Caches(template_cache, jinja_cache),
                           prompt_engine, template_name, file, complete,
                           compiles, renders))
  /\ UNCHANGED <<runtime_vars, factory_vars, adapter_vars, manager_vars,
                 analysis, prompt_engine>>

CallValidateTemplate(template_name, file, compiles) ==
  /\ Leaves("validate_template", template_name,
            ValidateTemplate(Caches(template_cache, jinja_cache),
                             prompt_engine, template_name, file, compiles))
  /\ UNCHANGED <<runtime_vars, factory_vars, adapter_vars, manager_vars,
                 analysis, prompt_engine>>

CallClearCache ==
  /\ Leaves("clear_cache", "none", ClearCache)
  /\ UNCHANGED <<runtime_vars, factory_vars, adapter_vars, manager_vars,
                 analysis, prompt_engine>>

EngineNext ==
  \/ \E n \in TemplateNames, f \in Files : CallLoadTemplate(n, f)
  \/ \E n \in TemplateNames, f \in Files, v, c, r \in BOOLEAN :
       CallRenderTemplate(n, f, v, c, r)
  \/ \E n \in TemplateNames, f \in Files, c \in BOOLEAN :
       CallValidateTemplate(n, f, c)
  \/ CallClearCache

EngineSpecInit ==
  RuntimeAtRest /\ FactoryInit /\ AdapterAtRest /\ ManagerAtRest
    /\ AnalysisAtRest /\ EngineInit

EngineSpec == EngineSpecInit /\ [][EngineNext]_vars

\* ---------------------------------------------------------------- claims
NonRetried == {"LLMValidationError", "LLMAuthenticationError"}

Retryable == {"LLMConnectionError", "LLMRateLimitError", "LLMError"}

EndedIn(op, status) ==
  completed.op = op /\ completed.result.status = status

\* C1: an LLMValidationError or LLMAuthenticationError raised by
\* _make_request leaves generate at once: no call goes on (to a back-off sleep
\* and a further invocation) after its adapter raised one, and the caller
\* receives that very exception.
C1_NonRetriedPropagate ==
  /\ \A p \in Callers : call[p].only_retryable
  /\ (/\ EndedIn("generate", "error")
      /\ completed.result.step = "adapter"
      /\ completed.result.error.kind \in NonRetried)
       => completed.result.error = completed.last_exception

\* C2: a generate call with an empty message list never invokes
\* _make_request and never returns a response; once the client is there it
\* fails with the LLMValidationError of _validate_request.
C2_EmptyMessagesRejected ==
  /\ \A p \in Callers :
       (call[p].op = "generate" /\ call[p].request.messages = 0)
         => call[p].calls = 0 /\ call[p].pc \in {"initialising", "gate_sleep"}
  /\ (completed.op = "generate" /\ completed.request.messages = 0)
       => /\ completed.calls = 0
          /\ completed.result.status = "error"
          /\ completed.result.step # "initialise"
               => /\ completed.result.step = "validate"
                  /\ completed.result.error.kind = "LLMValidationError"

C2_Witness ==
  /\ completed.op = "generate"
  /\ completed.request.messages = 0
  /\ completed.result.step = "validate"
  /\ completed.result.error.kind = "LLMValidationError"
  /\ completed.calls = 0

\* C3: a generate call in which every attempt raised a retryable error has
\* invoked the adapter max_retries + 1 times, never more, and ends with the
\* very exception of the last attempt.
C3_RetryExhaustion ==
  /\ \A p \in Callers : call[p].calls <= config.max_retries + 1
  /\ (/\ EndedIn("generate", "error")
      /\ completed.result.step = "adapter"
      /\ completed.only_retryable)
       => /\ completed.calls = config.max_retries + 1
          /\ completed.raises = completed.calls
          /\ completed.result.error = completed.last_exception
          /\ completed.result.error.origin = config.max_retries
          /\ completed.result.error.kind \in Retryable

\* Exhaustion after three attempts that did not all raise the same kind.
C3_Witness ==
  /\ EndedIn("generate", "error")
  /\ config.max_retries = 2
  /\ completed.calls = 3
  /\ completed.only_retryable
  /\ ~completed.only_rate_limit
  /\ completed.result.error.kind = "LLMRateLimitError"
  /\ completed.result.error.origin = 2

\* C4: a generate call that returns a response after k rate-limit errors has
\* invoked the adapter k + 1 times and slept k times, k <= max_retries, and
\* the response is the one of invocation k + 1.
C4_RetryThenSuccess ==
  (EndedIn("generate", "response") /\ completed.only_rate_limit)
    => /\ completed.calls = completed.raises + 1
       /\ completed.sleeps = completed.raises
       /\ completed.attempt = completed.raises
       /\ completed.raises <= config.max_retries
       /\ completed.result.error = NoError
       /\ completed.result.usage \in Usages

C4_Witness ==
  /\ EndedIn("generate", "response")
  /\ completed.only_rate_limit
  /\ completed.raises = 2
  /\ completed.sleeps = 2
  /\ completed.calls = 3

\* C5: the back-off wait is the retry_after of a rate-limit error whenever one
\* was supplied (0 included), and retry_delay_seconds * 2^attempt otherwise.
C5_BackoffPolicy ==
  \A p \in Callers :
    call[p].pc = "backoff"
      => call[p].wait_time =
           IF IsRateLimit(call[p].last_exception)
              /\ call[p].last_exception.retry_after # {}
           THEN Value(call[p].last_exception.retry_after)
           ELSE config.retry_delay_seconds * Pow2(call[p].attempt)

\* C6: with calls issued one after the other, line 383 runs no sooner than
\* min_interval after its previous run, and the first call is not delayed.
C6_SequentialSpacing ==
  max_in_flight = 1
    => /\ (last_pass.passed /\ last_pass.gap # {})
            => Value(last_pass.gap) >= MinInterval
       /\ (last_pass.passed /\ last_pass.gap = {}) => last_pass.waited = 0
       /\ \A p \in Callers :
            call[p].pc = "gate_sleep" => last_request_age # {}

\* The second of two consecutive calls at 60 requests per minute was made to
\* sleep and passed one second after the first.
C6_Witness ==
  /\ max_in_flight = 1
  /\ config.max_requests_per_minute = 60
  /\ last_pass.passed
  /\ last_pass.waited > 0
  /\ last_pass.gap = {1}

\* C7: whatever the interleaving of callers, two runs of line 383 are at
\* least min_interval apart.
C7_NoBurst ==
  (last_pass.passed /\ last_pass.gap # {})
    => Value(last_pass.gap) >= MinInterval

\* C8: _initialise_client is invoked once per runtime (invocations that raised
\* left aside).
C8_InitialisedOnce == initialisations <= 1

\* C9: request_count is the number of responses and completed streams, and
\* token_count the sum of the total_tokens of the responses.
C9_NoLostUpdates ==
  /\ request_count = responses.count + streams_done
  /\ token_count = responses.tokens

\* A second response arrives while another generate call awaits the adapter.
C9_Witness ==
  /\ max_in_flight > 1
  /\ EndedIn("generate", "response")
  /\ completed.result.usage # {}
  /\ responses.count = 2
  /\ responses.tokens >= 2
  /\ \E p \in Callers : call[p].pc = "request"

\* C10: every error that leaves generate or stream_generate is an LLMError,
\* whichever step raised it.
C10_OnlyLLMErrorsEscape ==
  (completed.op \in {"generate", "stream_generate"}
     /\ completed.result.status = "error")
    => IsLLMError(completed.result.error)

\* C11: a generate call whose adapter failed with a generic provider error (an
\* LLMError it raised, or an exception outside the hierarchy, which generate
\* hands on as an LLMError) has invoked the adapter max_retries + 1 times and
\* slept between the invocations.
C11_GenericErrorsRetried ==
  (/\ EndedIn("generate", "error")
   /\ completed.result.step = "adapter"
   /\ completed.result.error.kind = "LLMError")
    => /\ completed.calls = config.max_retries + 1
       /\ completed.sleeps = config.max_retries

OverLimit(req) ==
  req.max_tokens # {} /\ Value(req.max_tokens) > MaxTokensLimit

\* C12: a generate call whose request has max_tokens > 32000 never invokes
\* _make_request and, once the client is there, ends with the
\* LLMValidationError of _validate_request; a request with a message and
\* max_tokens absent or <= 32000 passes _validate_request.
C12_MaxTokensLimit ==
  /\ \A p \in Callers :
       (call[p].op = "generate" /\ OverLimit(call[p].request))
         => call[p].calls = 0 /\ call[p].pc \in {"initialising", "gate_sleep"}
  /\ (completed.op = "generate" /\ OverLimit(completed.request))
       => /\ completed.calls = 0
          /\ completed.result.status = "error"
  /\ (last_pass.passed /\ last_pass.op = "generate")
       => IF OverLimit(last_pass.request)
          THEN /\ completed.op = "generate"
               /\ completed.request = last_pass.request
               /\ completed.calls = 0
               /\ completed.result.step = "validate"
               /\ completed.result.error.kind = "LLMValidationError"
          ELSE last_pass.request.messages > 0
                 => /\ completed = Idle
                    /\ \E p \in Callers :
                         call[p].pc = "request" /\ call[p].calls = 1

\* A request one over the limit is rejected after it waited at the gate.
C12_Witness ==
  /\ last_pass.passed
  /\ last_pass.op = "generate"
  /\ last_pass.waited > 0
  /\ last_pass.request.max_tokens = {MaxTokensLimit + 1}
  /\ completed.result.step = "validate"
  /\ completed.result.error.kind = "LLMValidationError"
  /\ completed.calls = 0

\* C13: health_check never raises.  When _initialise_client raised, it returns
\* an "unhealthy" report with that error; otherwise a "healthy" report with
\* the request and token counters as they are when it returns.
C13_HealthCheckReports ==
  completed.op = "health_check"
    => /\ completed.result.status \in {"healthy", "unhealthy"}
       /\ completed.result.status = "unhealthy"
            => /\ completed.result.step = "initialise"
               /\ completed.result.error \in PlainErrors
       /\ completed.result.status = "healthy"
            => /\ client # {}
               /\ completed.result.error = NoError
               /\ completed.result.total_requests = request_count
               /\ completed.result.total_tokens = token_count

\* A healthy report after a response and a completed stream.
C13_Witness ==
  /\ EndedIn("health_check", "healthy")
  /\ completed.result.total_requests = 2
  /\ completed.result.total_tokens = 1

C13_WitnessUnhealthy ==
  /\ EndedIn("health_check", "unhealthy")
  /\ completed.result.error.kind = "Exception"


\* C14: the manager's health_check, the provider table keeping its size while
\* it runs, does not raise, and its result has one entry for every registered
\* provider: the manager's "unhealthy" entry with the error for a provider
\* whose health_check raised, the provider's own report for every other.
C14_HealthCheckIsolation ==
  /\ health.pc = "raised" => Len(llm_providers) # health.size
  /\ health.pc = "returned"
       => /\ {r.id : r \in health.report} = Keys(llm_providers)
          /\ Cardinality(health.report) = Len(llm_providers)
          /\ \A r \in health.report :
               IF r.id \in health.raisers
               THEN /\ r.by = "manager"
                    /\ r.status = "unhealthy"
                    /\ r.error \in HealthErrors
               ELSE /\ r.by = "provider"
                    /\ r.error = NoError

\* Two providers: the health_check of the first raised, the second reported
\* itself healthy.
C14_Witness ==
  /\ health.pc = "returned"
  /\ Len(llm_providers) = 2
  /\ health.raisers = {llm_providers[1]}
  /\ \E r \in health.report :
       r.id = llm_providers[2] /\ r.by = "provider" /\ r.status = "healthy"

\* C15: create_llm for an identifier with no entry fails with an
\* LLMValidationError that lists the registered identifiers; for an identifier
\* whose entry is an adapter it returns an instance of that adapter when the
\* config names the adapter's vendor and has an API key; register_provider
\* sets the entry, also when there was one.
C15_FactoryRegistry ==
  /\ (created.op = "create_llm"
        /\ created.config.provider \notin DOMAIN providers)
       => /\ created.status = "error"
          /\ created.error = Raised("LLMValidationError")
          /\ created.listed = DOMAIN providers
  /\ (/\ created.op = "create_llm"
      /\ created.config.provider \in DOMAIN providers
      /\ providers[created.config.provider] \in AdapterClasses
      /\ created.config.provider = Vendor(providers[created.config.provider])
      /\ created.config.api_key # "")
       => /\ created.status = "instance"
          /\ created.cls = providers[created.config.provider]
  /\ (created.op = "register_provider" /\ created.status = "registered")
       => /\ created.config.provider \in DOMAIN providers
          /\ providers[created.config.provider] = created.cls

\* C16: what the constructor raises leaves create_llm as it is when it is an
\* LLMError, and as a generic LLMError otherwise; every error of create_llm
\* is an LLMError.
C16_ConstructionErrors ==
  created.op = "create_llm"
    => /\ created.status = "error" => IsLLMError(created.error)
       /\ created.constructed # {}
            => /\ created.status = "error"
               /\ created.error =
                    IF IsLLMError(Value(created.constructed))
                    THEN Value(created.constructed)
                    ELSE Raised("LLMError")

\* The constructor of a registered class raised an exception outside the
\* hierarchy.
C16_Witness ==
  /\ created.op = "create_llm"
  /\ created.cls = "CustomLLM"
  /\ created.config.provider_is = "enum"
  /\ created.constructed = {Err("Exception", {}, -1, TRUE)}
  /\ created.error = Raised("LLMError")

\* C17: the constructor of an adapter, given a config that names another
\* vendor or has an empty API key, raises LLMValidationError.
C17_AdapterConstruction ==
  (/\ created.op = "create_llm"
   /\ created.cls \in AdapterClasses
   /\ \/ created.config.provider # Vendor(created.cls)
      \/ created.config.api_key = "")
    => /\ created.constructed = {Raised("LLMValidationError")}
       /\ client = {}

\* The kind the claim gives a vendor exception of class c.
MappedKind(c) ==
  IF c = "AuthenticationError" THEN "LLMAuthenticationError"
  ELSE IF c = "RateLimitError" THEN "LLMRateLimitError"
  ELSE IF c \in {"APIConnectionError", "APITimeoutError"}
  THEN "LLMConnectionError"
  ELSE IF c = "BadRequestError" THEN "LLMValidationError"
  ELSE "LLMError"

\* C18: what _make_request raises for a vendor exception is an error of the
\* hierarchy whose kind the class of the exception decides; a rate-limit
\* error carries the seconds of the retry-after header when the response has
\* them and None otherwise.
C18_ErrorMapping ==
  (adapter_in.fn = "_make_request" /\ adapter_out.status = "raised")
    => /\ adapter_out.kind \in LLMErrorKinds
       /\ adapter_out.kind = MappedKind(adapter_in.error)
       /\ adapter_out.retry_after =
            IF /\ adapter_in.error = "RateLimitError"
               /\ adapter_in.has_response
               /\ adapter_in.header # {}
            THEN ParseFloat(Value(adapter_in.header))
            ELSE {}

\* The contents of the system messages of a list, in their order.
RECURSIVE SystemContents(_)
SystemContents(messages) ==
  IF messages = <<>> THEN <<>>
  ELSE LET rest == SystemContents(Tail(messages))
       IN IF Head(messages).role = "system"
          THEN <<Head(messages).content>> \o rest
          ELSE rest

\* Contents joined with a blank line between each two neighbours.
RECURSIVE Joined(_)
Joined(contents) ==
  IF contents = <<>> THEN <<>>
  ELSE IF Len(contents) = 1 THEN contents[1]
  ELSE contents[1] \o BlankLine \o Joined(Tail(contents))

\* C19: the system message _convert_messages_to_anthropic returns is the
\* contents of the system messages, in their order, joined by a blank line
\* between each two neighbours, whatever the contents (the empty one
\* included); it is empty when there is no system message.
C19_SystemPreamble ==
  (/\ adapter_in.fn = "_convert_messages_to_anthropic"
   /\ adapter_out.status = "returned")
    => adapter_out.system = Joined(SystemContents(adapter_in.messages))

\* The user and assistant messages of a list, in their order.
RECURSIVE Conversation(_)
Conversation(messages) ==
  IF messages = <<>> THEN <<>>
  ELSE LET rest == Conversation(Tail(messages))
       IN IF Head(messages).role \in {"user", "assistant"}
          THEN <<[role |-> Head(messages).role,
                  content |-> Head(messages).content]>> \o rest
          ELSE rest

\* C20: _convert_messages_to_anthropic returns, as the vendor messages, the
\* user and assistant messages of its input in their order, role and content
\* unchanged, and no other message.
C20_ConversationPreserved ==
  (/\ adapter_in.fn = "_convert_messages_to_anthropic"
   /\ adapter_out # NoOutcome)
    => /\ adapter_out.status = "returned"
       /\ adapter_out.messages = Conversation(adapter_in.messages)

\* The vendor call of a streamed request was reached: the conversion of the
\* request's messages did not raise.
StreamReached ==
  /\ adapter_in.fn = "_stream_request"
  /\ adapter_out.status # "pending"
  /\ (IF adapter_in.adapter = "OpenAILLM"
      THEN ConvertMessagesToOpenAI(adapter_in.messages, adapter_in.role_is)
      ELSE ConvertMessagesToAnthropic(adapter_in.messages,
                                      adapter_in.role_is)).status = "returned"

\* C21: every fragment an adapter's _stream_request yields is a non-empty
\* string, whatever the vendor's stream sends, events with empty or missing
\* text included.
C21_FragmentsNonEmpty ==
  adapter_in.fn = "_stream_request" =>
    \A i \in 1..Len(adapter_out.yielded) : adapter_out.yielded[i] # <<>>

\* The vendor failures whose mapping the taxonomy names.
NamedFailures ==
  {"AuthenticationError", "RateLimitError", "APIConnectionError",
   "APITimeoutError", "BadRequestError"}

\* C22: a vendor authentication, rate-limit, connection/timeout or bad-request
\* failure raised during _stream_request surfaces from stream_generate as the
\* kind _make_request maps the same vendor exception to.
C22_StreamErrorMapping ==
  (StreamReached /\ adapter_in.error \in NamedFailures) =>
    /\ adapter_out.status = "raised"
    /\ Reraise(Raised(adapter_out.kind)).kind
         = MapError(adapter_in.error, FALSE, {}).kind

\* A usage object that lacks a token field the conversion reads.
LacksField(adapter, u) ==
  /\ u.is = "object"
  /\ {} \in (IF adapter = "OpenAILLM" THEN {u.prompt, u.completion, u.total}
              ELSE {u.prompt, u.completion})

\* C23: every LLMResponse a response conversion produces has at least one
\* Choice, also for a vendor response without choices or content; a usage with
\* absent fields is converted, with zero for each absent field, and does not
\* make the conversion fail.
C23_ResponseConversion ==
  (adapter_in.fn = "_convert_response" /\ adapter_out.status # "pending") =>
    /\ adapter_out.status = "returned" =>
         \A n \in adapter_out.choices : n >= 1
    /\ LacksField(adapter_in.adapter, adapter_in.response.usage) =>
         /\ adapter_out.status = "returned"
         /\ \A u \in adapter_out.usage :
              /\ u.prompt_tokens = GetOrZero(adapter_in.response.usage.prompt)
              /\ u.completion_tokens
                   = GetOrZero(adapter_in.response.usage.completion)

\* C24: a stream_generate call whose stream is consumed to its end adds
\* exactly 1 to request_count and leaves token_count as it was.
C24_StreamCounters ==
  [][EndedIn("stream_generate", "stream_done")' =>
       /\ request_count' = request_count + 1
       /\ token_count' = token_count]_vars

\* A stream that yielded a chunk has ended, after a response with tokens.
C24_Witness ==
  /\ EndedIn("stream_generate", "stream_done")
  /\ completed.chunks > 0
  /\ token_count > 0
  /\ request_count > 1

\* C30: a generate call whose request names a model outside supported_models,
\* has a message and max_tokens <= 32000 passes _validate_request: the call
\* does not end there and _make_request is invoked.
C30_UnknownModelAccepted ==
  (/\ last_pass.passed
   /\ last_pass.op = "generate"
   /\ last_pass.request.model = "unsupported"
   /\ last_pass.request.messages > 0
   /\ ~OverLimit(last_pass.request))
    => /\ completed = Idle
       /\ \E p \in Callers :
            /\ call[p].pc = "request"
            /\ call[p].calls = 1
            /\ call[p].request = Validated(last_pass.request)

\* A request for an unsupported model, with max_tokens at the limit, has just
\* been handed to the adapter.
C30_Witness ==
  /\ last_pass.passed
  /\ last_pass.op = "generate"
  /\ last_pass.request.model = "unsupported"
  /\ last_pass.request.max_tokens = {MaxTokensLimit}
  /\ \E p \in Callers : call[p].pc = "request" /\ call[p].calls = 1

\* The provider a call has to go to: its argument, else the default.
Wanted(c) == IF c.provider # {} THEN Value(c.provider) ELSE default_provider

\* C25: generate_from_template resolves the provider as its argument when one
\* is given, else as the manager's default; when that provider is not
\* registered the call fails before render_template is called and without a
\* call of any runtime's generate.
C25_UnregisteredProviderFails ==
  (generated.status = "done" /\ generated.op = "generate_from_template") =>
    /\ generated.resolved = Wanted(generated)
    /\ Wanted(generated) \notin Keys(llm_providers) =>
         /\ generated.result.status = "error"
         /\ ~generated.rendered
         /\ generated.invoked = <<>>

\* The default provider is not registered while another one is, and a call
\* without provider argument has failed.
C25_Witness ==
  /\ generated.status = "done"
  /\ generated.op = "generate_from_template"
  /\ generated.provider = {}
  /\ llm_providers # <<>>
  /\ default_provider \notin Keys(llm_providers)
  /\ generated.result = Thrown("ValueError")
  /\ ~generated.rendered

\* generation_params LLMRequest accepts.
Accepted(params) ==
  /\ \A t \in params.temperature : t >= 0 /\ t <= MaxTemperature
  /\ \A n \in params.max_tokens : n >= 1 /\ n <= MaxTokensLimit

SuppliedText(arg) == arg # {} /\ arg # {""}

SuppliedList(arg) == arg # {} /\ arg # {<<>>}

\* C27: cross_check_response generates through the checker provider (the
\* default one when none is given) with the template
\* crosscheck/response_validation, temperature 0.3 and max_tokens 2000;
\* code_review uses tasks/code_review with temperature 0.2 and max_tokens
\* 3000; the optional context keys are in the context exactly when the
\* argument is supplied and not empty.
C27_FixedTemplates ==
  /\ (generated.status = "done" /\ generated.op = "cross_check_response") =>
       /\ generated.resolved = Wanted(generated)
       /\ generated.template = "crosscheck/response_validation"
       /\ generated.params = [temperature |-> {3}, max_tokens |-> {2000}]
       /\ generated.context.response_provider
            = (IF SuppliedText(generated.label) THEN generated.label ELSE {})
       /\ generated.context.validation_aspects
            = (IF SuppliedList(generated.list) THEN generated.list ELSE {})
       /\ generated.context.focus_areas = {}
       /\ generated.context.severity_threshold = {}
       /\ (Wanted(generated) \in Keys(llm_providers)
           /\ generated.rendering = "text") =>
            /\ Len(generated.invoked) = 1
            /\ generated.invoked[1].provider = Wanted(generated)
            /\ generated.invoked[1].request.temperature = 3
            /\ generated.invoked[1].request.max_tokens = 2000
  /\ (generated.status = "done" /\ generated.op = "code_review") =>
       /\ generated.resolved = Wanted(generated)
       /\ generated.template = "tasks/code_review"
       /\ generated.params = [temperature |-> {2}, max_tokens |-> {3000}]
       /\ generated.context.focus_areas
            = (IF SuppliedList(generated.list) THEN generated.list ELSE {})
       /\ generated.context.severity_threshold
            = (IF SuppliedText(generated.label) THEN generated.label ELSE {})
       /\ generated.context.response_provider = {}
       /\ generated.context.validation_aspects = {}
       /\ (Wanted(generated) \in Keys(llm_providers)
           /\ generated.rendering = "text") =>
            /\ Len(generated.invoked) = 1
            /\ generated.invoked[1].provider = Wanted(generated)
            /\ generated.invoked[1].request.temperature = 2
            /\ generated.invoked[1].request.max_tokens = 3000

\* A cross-check with an empty provider label and an empty list of aspects
\* went to the default provider without the two keys in its context.
C27_Witness ==
  /\ generated.status = "done"
  /\ generated.op = "cross_check_response"
  /\ generated.provider = {}
  /\ generated.label = {""}
  /\ generated.list = {<<>>}
  /\ generated.context.response_provider = {}
  /\ generated.context.validation_aspects = {}
  /\ Len(generated.invoked) = 1

\* C28: for every text _extract_confidence_score returns None or a number in
\* [0, 1]: None exactly when no pattern matches; a matched value v <= 1 as it
\* is, a matched value v > 1 divided by 10 and then cut to 1 (8/10 gives 0.8).
C28_ConfidenceScore ==
  (analysis.fn = "_extract_confidence_score" /\ analysis.status = "done") =>
    /\ \A r \in analysis.score : r >= 0 /\ r <= Unit
    /\ analysis.score = {} <=> SearchPatterns(analysis.text) = {}
    /\ \A m \in SearchPatterns(analysis.text) :
         LET v == Float(m)
         IN /\ v <= Unit => analysis.score = {v}
            /\ v > Unit =>
                 analysis.score = {IF v \div 10 > Unit THEN Unit
                                   ELSE v \div 10}

\* "8 / 10" has given 0.8.
C28_Witness ==
  /\ analysis.fn = "_extract_confidence_score"
  /\ analysis.status = "done"
  /\ analysis.text = <<"8", "/", "10">>
  /\ analysis.score = {80}

\* The keywords in their order of priority.
Keywords == <<"excellent", "good", "fair", "poor">>

\* How a keyword is returned.
Capitalised == <<"Excellent", "Good", "Fair", "Poor">>

\* C29: _extract_overall_assessment returns the keyword of highest priority
\* (excellent > good > fair > poor) among those the text contains in any case,
\* and "Unknown" exactly when it contains none of the four.
C29_OverallAssessment ==
  (analysis.fn = "_extract_overall_assessment" /\ analysis.status = "done") =>
    LET present == {i \in 1..Len(Keywords) :
                      \E j \in 1..Len(analysis.text) :
                        Lower(analysis.text[j]) = Keywords[i]}
    IN /\ analysis.assessment = "Unknown" <=> present = {}
       /\ present # {} =>
            \E i \in present :
              /\ analysis.assessment = Capitalised[i]
              /\ \A k \in present : i <= k

\* A text with "poor" before "good" has given "Good".
C29_Witness ==
  /\ analysis.fn = "_extract_overall_assessment"
  /\ analysis.status = "done"
  /\ analysis.text = <<"poor", "good">>
  /\ analysis.assessment = "Good"

\* C31: a generate or stream_generate call that _validate_request rejects
\* leaves _last_request_time as it found it: after the step that took the call
\* through line 383 and rejected it, the age of the timestamp is the one the
\* call met at the gate.
C31_RejectedLeavesTimestamp ==
  (last_pass.passed /\ completed.result.step = "validate")
    => last_request_age = last_pass.gap

\* C32: a generate call whose request passed _validate_request has invoked
\* _make_request at least once, no generate call invokes it more than
\* max_retries + 1 times whatever kinds of error it raised, and every generate
\* call ends, with a response or an error.
C32_BoundedRetries ==
  /\ [](\A p \in Callers :
          /\ call[p].calls <= config.max_retries + 1
          /\ call[p].raises <= call[p].calls
          /\ call[p].pc \in {"request", "backoff"}
               => call[p].calls = call[p].attempt + 1)
  /\ []((/\ last_pass.passed
         /\ last_pass.op = "generate"
         /\ ValidateRequest(last_pass.request) = {})
          => \E p \in Callers : call[p].pc = "request" /\ call[p].calls = 1)
  /\ [](completed.op = "generate"
          => /\ completed.result.status \in {"response", "error"}
             /\ completed.calls <= config.max_retries + 1
             /\ completed.result.step \in {"adapter", "none"}
                  => completed.calls >= 1)
  /\ \A p \in Callers :
       (call[p].op = "generate" /\ InFlight(call[p]))
         ~> (completed.op = "generate" /\ ~InFlight(call[p]))

\* A call has ended after max_retries + 1 = 3 invocations that raised errors of
\* different kinds.
C32_Witness ==
  /\ EndedIn("generate", "error")
  /\ config.max_retries = 2
  /\ completed.calls = 3
  /\ completed.raises = 3
  /\ ~completed.only_rate_limit
  /\ ~completed.only_retryable

\* C33: a step in which a generate call ends in an error leaves request_count
\* and token_count as they were, and so does every step of health_check; no
\* step makes either counter smaller, and a counter changes only in the step
\* in which generate returns a response or a stream is consumed to its end.
C33_CountersFrame ==
  [][/\ request_count' >= request_count
     /\ token_count' >= token_count
     /\ EndedIn("generate", "error")'
          => request_count' = request_count /\ token_count' = token_count
     /\ completed'.op = "health_check"
          => request_count' = request_count /\ token_count' = token_count
     /\ (request_count' # request_count \/ token_count' # token_count)
          => \/ EndedIn("generate", "response")'
             \/ EndedIn("stream_generate", "stream_done")']_vars

\* A generate call has exhausted its retries after an earlier call was counted
\* with its tokens.
C33_Witness ==
  /\ EndedIn("generate", "error")
  /\ completed.result.step = "adapter"
  /\ completed.calls >= 2
  /\ request_count > 0
  /\ token_count > 0

\* C34: a further invocation of _make_request within a generate call follows
\* the back-off sleep of the retry loop and nothing else: the step that makes
\* it neither passes line 383 nor writes _last_request_time.  The timestamp is
\* written by passing line 383 only, and the call that passes it has not
\* invoked the adapter yet, so one call writes it once.  (The witness shows two
\* invocations of one call closer to each other than min_interval.)
C34_RetriesBypassGate ==
  [][/\ \A p \in Callers :
          (call[p].calls >= 1 /\ call'[p].calls = call[p].calls + 1)
            => /\ call[p].pc = "backoff"
               /\ call[p].remaining = 0
               /\ call'[p].pc = "request"
               /\ last_request_age' = last_request_age
               /\ ~last_pass'.passed
     /\ last_pass'.passed
          => /\ last_request_age' = {0}
             /\ \A q \in Callers :
                  call[q].pc \in {"request", "backoff", "stream"}
                    => call'[q] = call[q]
     /\ (last_request_age' # last_request_age /\ ~last_pass'.passed)
          => /\ last_request_age # {}
             /\ last_request_age' = {Value(last_request_age) + 1}
             /\ \A q \in Callers : call'[q].pc = call[q].pc]_vars

\* At 30 requests per minute (min_interval 2 s) and a retry delay of 1 s, the
\* second invocation of a call is made 1 s after the call passed the gate.
C34_Witness ==
  /\ max_in_flight = 1
  /\ MinInterval = 2
  /\ last_request_age = {1}
  /\ \E p \in Callers :
       /\ call[p].pc = "request"
       /\ call[p].calls = 2
       /\ call[p].sleeps = 1

\* C35: stream_generate starts _stream_request once, on passing the gate and
\* _validate_request, and never again: when the stream raises, the call ends
\* in that step with the chunks it had forwarded, the error that leaves it is
\* an LLMError, no back-off sleep or adapter retry has taken place and
\* request_count is as it was.
C35_StreamNeverRetries ==
  /\ [][\A p \in Callers :
          /\ (call'[p].pc = "stream" /\ call[p].pc # "stream")
               => /\ last_pass'.passed
                  /\ call[p].pc \in {"idle", "initialising", "gate_sleep"}
                  /\ call'[p].chunks = 0
          /\ (call[p].pc = "stream" /\ call'[p].pc # "stream")
               => /\ call'[p] = Idle
                  /\ completed'.op = "stream_generate"
                  /\ completed'.chunks = call[p].chunks
                  /\ completed'.result.status = "error"
                       => /\ request_count' = request_count
                          /\ streams_done' = streams_done]_vars
  /\ [](\A p \in Callers :
          call[p].op = "stream_generate"
            => call[p].calls = 0 /\ call[p].sleeps = 0 /\ call[p].raises = 0)
  /\ []((EndedIn("stream_generate", "error")
           /\ completed.result.step = "stream")
          => /\ completed.raises = 1
             /\ completed.calls = 0
             /\ completed.sleeps = 0
             /\ IsLLMError(completed.result.error)
             /\ completed.result.error.kind \in NonRetried \cup Retryable)

\* A stream has raised after it yielded a chunk, with the retry budget of the
\* configuration untouched.
C35_Witness ==
  /\ EndedIn("stream_generate", "error")
  /\ completed.result.step = "stream"
  /\ completed.chunks = 1
  /\ completed.raises = 1
  /\ config.max_retries = 2
  /\ request_count = 0

\* C36: for a non-empty message list (one that passes _validate_request), the
\* message array _convert_messages_to_anthropic returns, which _make_request
\* sends to the vendor as it is, is not empty.
C36_VendorMessagesNonEmpty ==
  (/\ adapter_in.fn = "_convert_messages_to_anthropic"
   /\ adapter_out.status = "returned"
   /\ Len(adapter_in.messages) > 0)
    => adapter_out.messages # <<>>

\* C37: register_provider of the manager that succeeds puts the entry of
\* config.provider into the provider mapping, one entry for the identifier,
\* and keeps every other entry and its place; one that fails leaves the
\* mapping as it was and raises again the error create_llm raised.
C37_RegisterProvider ==
  [][created'.op = "LLMManager.register_provider" =>
       LET id == created'.config.provider
           made == created'.constructed
       IN /\ created'.status \in {"instance", "error"}
          /\ created'.status = "instance"
               => /\ Keys(llm_providers') = Keys(llm_providers) \cup {id}
                  /\ \A i \in 1..Len(llm_providers) :
                       llm_providers'[i] = llm_providers[i]
                  /\ Cardinality({i \in 1..Len(llm_providers') :
                                    llm_providers'[i] = id}) = 1
          /\ created'.status = "error"
               => /\ llm_providers' = llm_providers
                  /\ created'.error =
                       IF made = {} THEN Raised("LLMValidationError")
                       ELSE IF IsLLMError(Value(made)) THEN Value(made)
                       ELSE Raised("LLMError")]_vars

\* C38: the step in which _initialise_client raises leaves the client slot,
\* the rate-limit timestamp and the counters as they were, and the call ends
\* there without validation or adapter call; a call entered while the slot is
\* empty invokes _initialise_client; and once the slot holds a client, line
\* 301 does not assign it again: no caller comes back from
\* _initialise_client with a client.
C38_InitialisationFailure ==
  [][/\ completed'.result.step = "initialise"
          => /\ client' = client
             /\ last_request_age' = last_request_age
             /\ ~last_pass'.passed
             /\ request_count' = request_count
             /\ token_count' = token_count
             /\ completed'.calls = 0
             /\ completed'.chunks = 0
     /\ \A p \in Callers :
          /\ (client = {} /\ ~InFlight(call[p]) /\ started' = started + 1
                /\ call'[p] # call[p])
               => /\ call'[p].pc = "initialising"
                  /\ initialisations' = initialisations + 1
          /\ (client # {} /\ call[p].pc = "initialising"
                /\ call'[p].pc # "initialising")
               => completed'.result.step = "initialise"]_vars

\* C39: with cache_size >= 1 the template cache never holds more than
\* cache_size entries (one per name), every key of the compiled-template
\* cache is a key of the template cache, and an operation that evicts takes
\* out the key inserted first, from both caches: after it that key is in
\* neither, unless it is the name the operation loads again.
C39_TemplateCache ==
  /\ [](/\ Len(template_cache) <= prompt_engine.cache_size
        /\ \A i, j \in 1..Len(template_cache) :
             template_cache[i] = template_cache[j] => i = j
        /\ jinja_cache \subseteq Keys(template_cache))
  /\ [][\A k \in engine_call'.evicted :
          /\ template_cache # <<>>
          /\ k = template_cache[1]
          /\ Len(template_cache) = prompt_engine.cache_size
          /\ engine_call'.compiled <=> k \in jinja_cache
          /\ k # engine_call'.template_name
               => k \notin Keys(template_cache') /\ k \notin jinja_cache'
          /\ \A i \in 2..Len(template_cache) :
               template_cache[i] \in Keys(template_cache')
          /\ engine_call'.template_name \in Keys(template_cache')]_vars

\* render_template has evicted a template that had been compiled, from a
\* full cache of two.
C39_Witness ==
  /\ engine_call.op = "render_template"
  /\ engine_call.evicted # {}
  /\ engine_call.compiled
  /\ engine_call.evicted # {engine_call.template_name}
  /\ prompt_engine.cache_size = 2
  /\ Len(template_cache) = 2
  /\ jinja_cache = Keys(template_cache)
====
